---- MODULE Spec2Model ----
(***************************************************************************)
(* A model of the DevRoom orchestration core: the per-room workspace lock  *)
(* (services/roomRepo.ts), the monitor's signal cooldown and event poll    *)
(* (agents/monitor.ts), the task graph with its status route, dependency   *)
(* resolver and contract impact analyzer (routes/tasks.ts,                 *)
(* agents/master.ts) and the agentic execution pass (agents/agentic.ts).   *)
(*                                                                         *)
(* The program runs on one JavaScript event loop: code between two awaits  *)
(* is atomic, and every await is a point where other handlers run.  Each   *)
(* action below is one such atomic stretch.                                *)
(*                                                                         *)
(* The parts are independent state machines over disjoint variables; each  *)
(* has its own next-state relation and specification (SpecLock, SpecRepo,  *)
(* SpecSignal, SpecEvents, SpecTimers, FairTimers, Spec, FairSpec,         *)
(* SpecImpact, SpecAlert, SpecExec, SpecGate, SpecVerify, SpecTrigger,     *)
(* SpecDetect, SpecGraph, SpecSweepAlerts, SpecWorkspace, SpecFlag,        *)
(* SpecApply, SpecLaunch, SpecPipeline, SpecAssign, SpecTree,              *)
(* SpecContractBlocked, SpecChain, FairChain) over the common initial      *)
(* state; SpecAlert starts from every set of contract dependencies and     *)
(* SpecContractBlocked from tasks that depend on a contract.               *)
(***************************************************************************)
EXTENDS Integers, Sequences, FiniteSets, TLC

VARIABLES
  \* services/roomRepo.ts
  roomLocks,        \* room -> the caller whose promise is stored; 0 when no entry
  lockPc,           \* caller -> "idle" | "waiting" | "running" | "rejected"
  lockRoom,         \* caller -> the room of its current call
  lockAwait,        \* caller -> the caller whose promise it awaits; 0 when none
  lockQueue,        \* waiting callers, in the order their awaits were registered
  lockCalls,        \* number of withRoomLock calls made so far
  repoOp,           \* call -> the git or file-writing stretch it is in, and its room
  \* agents/monitor.ts: shouldEmitSignal
  now,              \* Date.now(), in seconds
  lastSignalAt,     \* key -> time of the last emission; 0 when the key is absent
  signalLog,        \* history of the calls: <<[key, at, result]>>
  \* agents/monitor.ts: processNewEvents
  eventWindow,      \* ids of the events the trailing-window query returns, oldest first
  eventsCreated,    \* number of events created so far (their ids are 1..eventsCreated)
  processedEvents,  \* the Set<string>, as the sequence of its insertion order
  pollPc,           \* poll -> "idle" | "looping"
  pollList,         \* poll -> its recentEvents
  pollIdx,          \* poll -> position in recentEvents of the event being handled
  handled,          \* id -> calls of masterHandleEvent for it (counted up to 2)
  returnedBy,       \* id -> polls whose query returned it (counted up to 2)
  completedEvents,  \* history: ids for which a call of masterHandleEvent has returned
  \* agents/monitor.ts: the sweep timer
  roomSweep,        \* the sweep callback: its position, the rooms left, the rooms swept
  \* the persistent store: tasks
  taskStatus,       \* task -> status
  blockedReason,    \* task -> blockedReason (NullReason for null)
  \* agents/monitor.ts, agents/master.ts: the reactor, the sweep and the resolver
  pendingEvents,    \* stored events the reactor has not handled yet, oldest first
  res,              \* "reactor" | "sweep" -> that caller's checkDependencyResolution call
  sweepPc,          \* "idle" | "running"
  sweepList,        \* the sweep's blockedTasks still to visit
  sweepResolved,    \* history: the tasks that were blocked on prerequisites all done
                    \* when the running sweep read its blockedTasks
  \* routes/contracts.ts, agents/master.ts: publishing a contract version
  contractVersions, \* the version numbers of the contract's stored versions, in creation order
  currentVersion,   \* the version contract.currentVersionId points to (0: none)
  pub,              \* publish request -> its position and locals
  \* agents/worker.ts, agents/agentic.ts, services/roomRepo.ts: the execution pipeline
  assignee,         \* task -> the worker it is assigned to
  executionLocks,   \* tasks whose lock key is in the set
  activeExecutionRuns, \* workers whose run key is in the set
  run,              \* worker -> position and locals of its kickoff and run
  files,            \* the working tree: the content of the target file
  head,             \* the last commit: the content of the target file
  otherChanges,     \* uncommitted changes to files that are not targets
  toldAlreadyRunning, \* workers whose chat holds the "already running" message
  \* routes/contracts.ts: detectBreakingChange
  detect,           \* the call of detectBreakingChange: its arguments and result
  \* agents/agentic.ts: the verification commands of a pass
  verification,     \* the verification loop of a pass: its commands, position, log and outcome
  \* the persistent store: contracts and task-contract dependencies
  contracts,        \* the ids of the room's Contract rows
  taskContractDeps, \* TaskContractDependency rows: <<task, contract>>
  \* agents/monitor.ts: validateContractGraph
  validate,         \* the call of validateContractGraph: its position and locals
  \* agents/monitor.ts: the alerts of periodicSweep
  sweepAlerts,      \* the sweeps made so far, the time of the last one and the alerts they emitted
  \* services/roomRepo.ts: ensureRoomRepoWorkspace
  workspace,        \* room -> the workspace on disk and the call of ensureRoomRepoWorkspace on it
  \* routes/contracts.ts: the breaking flag of POST /contracts/:id/publish
  publishFlag,      \* the stored versions of a contract and the publish requests computing their breaking flag
  \* agents/agentic.ts: applyFileEdits
  apply,            \* a call of applyFileEdits: its allowed paths, the paths seen and the files written
  \* agents/worker.ts: the run key of workerHandleMessage and workerKickoffAssignedTasks
  launch,           \* the triggers deciding on a run and the runs in flight of each user
  \* routes/tasks.ts and agents/monitor.ts: the two kickoffs of one assignment
  kickoffsDone,     \* the callers that have started the kickoff for the assignment of a task
  \* services/roomRepo.ts: commitAndMaybePushRoomRepo of concurrent passes
  tree,             \* the working tree and index of a room, shared by the passes, and the commit stretch of each pass
  \* event reactions (monitor.ts masterHandleEvent, worker passes)
  chain             \* stored events of one reaction chain, the handled ones, the pass in flight

lockVars == <<roomLocks, lockPc, lockRoom, lockAwait, lockQueue, lockCalls>>
signalVars == <<now, lastSignalAt, signalLog>>
eventVars == <<eventWindow, eventsCreated, processedEvents, pollPc, pollList, pollIdx,
               handled, returnedBy, completedEvents>>
taskVars == <<taskStatus, blockedReason>>
monitorVars == <<pendingEvents, res, sweepPc, sweepList, sweepResolved>>
contractVars == <<contractVersions, currentVersion, pub>>
execVars == <<assignee, executionLocks, activeExecutionRuns, run, files, head, otherChanges>>
chatVars == <<toldAlreadyRunning>>
repoVars == <<repoOp>>
timerVars == <<roomSweep>>
detectVars == <<detect>>
verifyVars == <<verification>>
graphVars == <<contracts, taskContractDeps, validate>>
sweepAlertVars == <<sweepAlerts>>
workspaceVars == <<workspace>>
flagVars == <<publishFlag>>
applyVars == <<apply>>
launchVars == <<launch>>
assignVars == <<kickoffsDone>>
treeVars == <<tree>>
chainVars == <<chain>>
vars == <<lockVars, signalVars, eventVars, taskVars, monitorVars, contractVars, execVars,
          chatVars, repoVars, timerVars, detectVars, verifyVars, graphVars, sweepAlertVars,
    workspaceVars, flagVars, applyVars, launchVars, assignVars, treeVars, chainVars>>

\* What the steps of each part leave alone: the other parts' variables.
LockFrame == UNCHANGED <<signalVars, eventVars, taskVars, monitorVars, contractVars, execVars,
    chatVars, repoVars, timerVars, detectVars, verifyVars, graphVars, sweepAlertVars,
    workspaceVars, flagVars, applyVars, launchVars, assignVars, treeVars, chainVars>>
SignalFrame == UNCHANGED <<lockVars, eventVars, taskVars, monitorVars, contractVars, execVars,
    chatVars, repoVars, timerVars, detectVars, verifyVars, graphVars, sweepAlertVars,
    workspaceVars, flagVars, applyVars, launchVars, assignVars, treeVars, chainVars>>
EventFrame == UNCHANGED <<lockVars, signalVars, taskVars, monitorVars, contractVars, execVars,
    chatVars, repoVars, timerVars, detectVars, verifyVars, graphVars, sweepAlertVars,
    workspaceVars, flagVars, applyVars, launchVars, assignVars, treeVars, chainVars>>
MonitorFrame == UNCHANGED <<lockVars, signalVars, eventVars, contractVars, execVars,
    chatVars, repoVars, timerVars, detectVars, verifyVars, graphVars, sweepAlertVars,
    workspaceVars, flagVars, applyVars, launchVars, assignVars, treeVars, chainVars>>
ImpactFrame == UNCHANGED <<lockVars, signalVars, eventVars, monitorVars, execVars,
    chatVars, repoVars, timerVars, detectVars, verifyVars, graphVars, sweepAlertVars,
    workspaceVars, flagVars, applyVars, launchVars, assignVars, treeVars, chainVars>>
ExecFrame == UNCHANGED <<lockVars, signalVars, eventVars, monitorVars, contractVars,
    chatVars, repoVars, timerVars, detectVars, verifyVars, graphVars, sweepAlertVars,
    workspaceVars, flagVars, applyVars, launchVars, assignVars, treeVars, chainVars>>
DetectFrame == UNCHANGED <<lockVars, signalVars, eventVars, taskVars, monitorVars, contractVars,
    execVars, chatVars, repoVars, timerVars, verifyVars, graphVars, sweepAlertVars,
    workspaceVars, flagVars, applyVars, launchVars, assignVars, treeVars, chainVars>>
ChatFrame == UNCHANGED <<lockVars, signalVars, eventVars, taskVars, monitorVars, contractVars,
    repoVars, timerVars, detectVars, verifyVars, graphVars, sweepAlertVars, workspaceVars,
    flagVars, applyVars, launchVars, assignVars, treeVars, chainVars>>
TimerFrame == UNCHANGED <<lockVars, signalVars, eventVars, taskVars, monitorVars, contractVars,
    execVars, chatVars, repoVars, detectVars, verifyVars, graphVars, sweepAlertVars,
    workspaceVars, flagVars, applyVars, launchVars, assignVars, treeVars, chainVars>>
RepoFrame == UNCHANGED <<lockVars, signalVars, eventVars, taskVars, monitorVars, contractVars,
    execVars, chatVars, timerVars, detectVars, verifyVars, graphVars, sweepAlertVars,
    workspaceVars, flagVars, applyVars, launchVars, assignVars, treeVars, chainVars>>
VerifyFrame == UNCHANGED <<lockVars, signalVars, eventVars, taskVars, monitorVars,
    contractVars, execVars, chatVars, repoVars, timerVars, detectVars, graphVars,
    sweepAlertVars, workspaceVars, flagVars, applyVars, launchVars, assignVars, treeVars,
    chainVars>>
GraphFrame == UNCHANGED <<lockVars, signalVars, eventVars, taskVars, monitorVars,
    contractVars, execVars, chatVars, repoVars, timerVars, detectVars, verifyVars,
    sweepAlertVars, workspaceVars, flagVars, applyVars, launchVars, assignVars, treeVars,
    chainVars>>
WorkspaceFrame == UNCHANGED <<lockVars, signalVars, eventVars, taskVars, monitorVars,
    contractVars, execVars, chatVars, repoVars, timerVars, detectVars, verifyVars,
    graphVars, sweepAlertVars, flagVars, applyVars, launchVars, assignVars, treeVars,
    chainVars>>
FlagFrame == UNCHANGED <<lockVars, signalVars, eventVars, taskVars, monitorVars,
    contractVars, execVars, chatVars, repoVars, timerVars, detectVars, verifyVars,
    graphVars, sweepAlertVars, workspaceVars, applyVars, launchVars, assignVars, treeVars,
    chainVars>>
ApplyFrame == UNCHANGED <<lockVars, signalVars, eventVars, taskVars, monitorVars,
    contractVars, execVars, chatVars, repoVars, timerVars, detectVars, verifyVars,
    graphVars, sweepAlertVars, workspaceVars, flagVars, launchVars, assignVars, treeVars,
    chainVars>>
LaunchFrame == UNCHANGED <<lockVars, signalVars, eventVars, taskVars, monitorVars,
    contractVars, chatVars, repoVars, timerVars, detectVars, verifyVars,
    graphVars, sweepAlertVars, workspaceVars, flagVars, applyVars, assignVars, treeVars,
    chainVars>>
AssignFrame == UNCHANGED <<lockVars, signalVars, eventVars, monitorVars,
    contractVars, chatVars, repoVars, timerVars, detectVars, verifyVars,
    graphVars, sweepAlertVars, workspaceVars, flagVars, applyVars, launchVars, treeVars,
    chainVars>>
TreeFrame == UNCHANGED <<lockVars, signalVars, eventVars, taskVars, monitorVars,
    contractVars, execVars, chatVars, repoVars, timerVars, detectVars, verifyVars,
    graphVars, sweepAlertVars, workspaceVars, flagVars, applyVars, launchVars, assignVars,
    chainVars>>
ChainFrame == UNCHANGED <<lockVars, signalVars, eventVars, taskVars, monitorVars,
    contractVars, execVars, chatVars, repoVars, timerVars, detectVars, verifyVars,
    graphVars, sweepAlertVars, workspaceVars, flagVars, applyVars, launchVars, assignVars,
    treeVars>>

Max(S) == CHOOSE x \in S : \A y \in S : y <= x

(***************************************************************************)
(* withRoomLock (services/roomRepo.ts)                                     *)
(***************************************************************************)
NumCallers == 3
NumRooms == 2
MaxLockCalls == 5

Callers == 1..NumCallers
Rooms == 1..NumRooms

InitLock ==
  /\ roomLocks = [r \in Rooms |-> 0]
  /\ lockPc = [c \in Callers |-> "idle"]
  /\ lockRoom = [c \in Callers |-> 1]
  /\ lockAwait = [c \in Callers |-> 0]
  /\ lockQueue = <<>>
  /\ lockCalls = 0

\* const running = roomLocks.get(roomId); if (running) await running;
\* otherwise fn() is called and its promise stored in the same synchronous stretch.
withRoomLockEnter(c, r) ==
  /\ lockPc[c] = "idle"
  /\ lockCalls < MaxLockCalls
  /\ lockCalls' = lockCalls + 1
  /\ LockFrame
  /\ lockRoom' = [lockRoom EXCEPT ![c] = r]
  /\ IF roomLocks[r] = 0
       THEN /\ lockPc' = [lockPc EXCEPT ![c] = "running"]
            /\ roomLocks' = [roomLocks EXCEPT ![r] = c]
            /\ UNCHANGED <<lockAwait, lockQueue>>
       ELSE /\ lockPc' = [lockPc EXCEPT ![c] = "waiting"]
            /\ lockAwait' = [lockAwait EXCEPT ![c] = roomLocks[r]]
            /\ lockQueue' = Append(lockQueue, c)
            /\ UNCHANGED roomLocks

\* The callers awaiting c's promise, in the order they resume.
WaitersOn(c) == SelectSeq(lockQueue, LAMBDA w : lockAwait[w] = c)

\* The stored promise after each resumed waiter, in turn, ran
\* "const next = fn()...; roomLocks.set(roomId, next)" without looking again.
LockAfterResume(stored, waiters) ==
  IF Len(waiters) = 0 THEN stored ELSE waiters[Len(waiters)]

\* fn's promise settles: the finally callback deletes the entry if it is still
\* c's own, then every caller awaiting c's promise resumes in the same microtask
\* drain.  A fulfilled promise lets each of them start its fn; a rejected one
\* makes their "await running" throw.
fnSettles(c, ok) ==
  /\ lockPc[c] = "running"
  /\ LET r == lockRoom[c]
         waiters == WaitersOn(c)
         isWaiter(w) == \E i \in 1..Len(waiters) : waiters[i] = w
         cleared == IF roomLocks[r] = c THEN 0 ELSE roomLocks[r]
     IN /\ lockPc' = [w \in Callers |->
                        IF w = c THEN "idle"
                        ELSE IF isWaiter(w) THEN (IF ok THEN "running" ELSE "rejected")
                        ELSE lockPc[w]]
        /\ roomLocks' = [roomLocks EXCEPT
                           ![r] = IF ok THEN LockAfterResume(cleared, waiters) ELSE cleared]
        /\ lockAwait' = [w \in Callers |-> IF isWaiter(w) THEN 0 ELSE lockAwait[w]]
        /\ lockQueue' = SelectSeq(lockQueue, LAMBDA w : ~isWaiter(w))
  /\ UNCHANGED <<lockRoom, lockCalls>>
  /\ LockFrame

\* ensureRoomRepoWorkspace's catch: the rejection of the awaited promise ends the
\* call without running fn.
withRoomLockRejected(c) ==
  /\ lockPc[c] = "rejected"
  /\ lockPc' = [lockPc EXCEPT ![c] = "idle"]
  /\ UNCHANGED <<roomLocks, lockRoom, lockAwait, lockQueue, lockCalls>>
  /\ LockFrame

NextLock ==
  \/ \E c \in Callers, r \in Rooms : withRoomLockEnter(c, r)
  \/ \E c \in Callers, ok \in BOOLEAN : fnSettles(c, ok)
  \/ \E c \in Callers : withRoomLockRejected(c)

(***************************************************************************)
(* The operations of services/roomRepo.ts and agents/agentic.ts that       *)
(* change a room's working tree or repository after the bootstrap          *)
(***************************************************************************)
NumRepoCalls == 2

RepoCalls == 1..NumRepoCalls

\* syncRoomRepo (git fetch, git pull), commitAndMaybePushRoomRepo (git add -A,
\* git commit, git push) and the apply step of a pass (git apply --reject,
\* fs.writeFile of each file edit).
RepoOpKinds == {"sync", "commit", "apply"}
RepoOpNone == [kind |-> "none", room |-> 1]

InitRepo == repoOp = [i \in RepoCalls |-> RepoOpNone]

\* The first command of the operation is started and awaited.  None of the
\* three calls withRoomLock or looks at roomLocks: only the bootstrap inside
\* ensureRoomRepoWorkspace, which has returned by now, runs under it.
repoOpBegins(i, r, kind) ==
  /\ repoOp[i].kind = "none"
  /\ repoOp' = [repoOp EXCEPT ![i] = [kind |-> kind, room |-> r]]
  /\ RepoFrame

\* The last command of the operation has settled.
repoOpEnds(i) ==
  /\ repoOp[i].kind # "none"
  /\ repoOp' = [repoOp EXCEPT ![i] = RepoOpNone]
  /\ RepoFrame

NextRepo ==
  \/ NextLock
  \/ \E i \in RepoCalls, r \in Rooms, kind \in RepoOpKinds : repoOpBegins(i, r, kind)
  \/ \E i \in RepoCalls : repoOpEnds(i)

(***************************************************************************)
(* shouldEmitSignal (agents/monitor.ts)                                    *)
(***************************************************************************)
\* Times are in seconds (the source's milliseconds / 1000).
SIGNAL_COOLDOWN == 90
TASK_BLOCKED_COOLDOWN == 45
ProcessStart == 1700000000
MaxSignalCalls == 3
MaxTicks == 4

SignalKeys == {"task-blocked", "repo-conflicts"}
\* The cooldown each call site passes for its key.
CooldownOf(key) == IF key = "task-blocked" THEN TASK_BLOCKED_COOLDOWN ELSE SIGNAL_COOLDOWN
ClockSteps == {15, 45, 90}

InitSignal ==
  /\ now = ProcessStart
  /\ lastSignalAt = [k \in SignalKeys |-> 0]
  /\ signalLog = <<>>

shouldEmitSignalSlip(last, t, cooldown) == ~(t - last <= cooldown)

\* if (now - last < cooldownMs) return false; ... return true;
shouldEmitSignal(last, t, cooldown) == ~(t - last < cooldown)

CallShouldEmitSignal(key) ==
  /\ Len(signalLog) < MaxSignalCalls
  /\ LET result == shouldEmitSignal(lastSignalAt[key], now, CooldownOf(key))
     IN /\ lastSignalAt' = IF result THEN [lastSignalAt EXCEPT ![key] = now]
                                     ELSE lastSignalAt
        /\ signalLog' = Append(signalLog, [key |-> key, at |-> now, result |-> result])
  /\ UNCHANGED now
  /\ SignalFrame

AdvanceClock(d) ==
  /\ now + d <= ProcessStart + MaxTicks * 45
  /\ now' = now + d
  /\ UNCHANGED <<lastSignalAt, signalLog>>
  /\ SignalFrame

NextSignal ==
  \/ \E key \in SignalKeys : CallShouldEmitSignal(key)
  \/ \E d \in ClockSteps : AdvanceClock(d)

(***************************************************************************)
(* processNewEvents (agents/monitor.ts)                                    *)
(***************************************************************************)
\* The bound of the processed-id set; the source's 10000, of which the oldest
\* half (5000) is deleted when the size exceeds it.
MaxProcessed == 2
MaxEvents == 3
NumPolls == 2

EventIds == 1..MaxEvents
Polls == 1..NumPolls
EvictCount == MaxProcessed \div 2

InitEvents ==
  /\ eventWindow = <<>>
  /\ eventsCreated = 0
  /\ processedEvents = <<>>
  /\ pollPc = [p \in Polls |-> "idle"]
  /\ pollList = [p \in Polls |-> <<>>]
  /\ pollIdx = [p \in Polls |-> 0]
  /\ handled = [id \in EventIds |-> 0]
  /\ returnedBy = [id \in EventIds |-> 0]
  /\ completedEvents = {}

InSeq(x, seq) == \E i \in 1..Len(seq) : seq[i] = x
UpTo2(n) == IF n >= 2 THEN 2 ELSE n + 1

\* emitEvent: prisma.event.create with createdAt = now.
emitEvent ==
  /\ eventsCreated < MaxEvents
  /\ eventsCreated' = eventsCreated + 1
  /\ eventWindow' = Append(eventWindow, eventsCreated + 1)
  /\ UNCHANGED <<processedEvents, pollPc, pollList, pollIdx, handled, returnedBy>>
  /\ UNCHANGED completedEvents
  /\ EventFrame

\* createdAt >= now - 60000 stops holding for the oldest event.
EventLeavesWindow ==
  /\ eventWindow # <<>>
  /\ eventWindow' = Tail(eventWindow)
  /\ UNCHANGED <<eventsCreated, processedEvents, pollPc, pollList, pollIdx, handled, returnedBy>>
  /\ UNCHANGED completedEvents
  /\ EventFrame

\* processedEvents.add(id), then the bound: above MaxProcessed entries the
\* first EvictCount in insertion order are deleted.
processedEventsAddDropNewest(set, id) ==
  LET added == Append(set, id)
  IN IF Len(added) > MaxProcessed
       THEN SubSeq(added, 1, Len(added) - EvictCount)
       ELSE added

processedEventsAdd(set, id) ==
  LET added == Append(set, id)
  IN IF Len(added) > MaxProcessed
       THEN SubSeq(added, EvictCount + 1, Len(added))
       ELSE added

\* Positions from `from` on in a poll's list whose event is not in processedEvents.
Unprocessed(p, from) ==
  {i \in from..Len(pollList[p]) : ~InSeq(pollList[p][i], processedEvents)}

\* The timer fires: the query of the trailing window.
processNewEventsQuery(p) ==
  /\ pollPc[p] = "idle"
  /\ eventWindow # <<>>
  /\ pollPc' = [pollPc EXCEPT ![p] = "looping"]
  /\ pollList' = [pollList EXCEPT ![p] = eventWindow]
  /\ pollIdx' = [pollIdx EXCEPT ![p] = 0]
  /\ returnedBy' = [id \in EventIds |->
                      IF InSeq(id, eventWindow) THEN UpTo2(returnedBy[id]) ELSE returnedBy[id]]
  /\ UNCHANGED <<eventWindow, eventsCreated, processedEvents, handled>>
  /\ UNCHANGED completedEvents
  /\ EventFrame

\* The event a poll is handling: its call of masterHandleEvent has not returned.
InFlight(p) == IF pollIdx[p] > 0 THEN {pollList[p][pollIdx[p]]} ELSE {}

\* The call of masterHandleEvent for the event in hand has returned.  The loop
\* runs on, skipping processed ids, to the next unprocessed event: adds its id,
\* bounds the set and calls masterHandleEvent, whose await yields.
processNewEventsHandle(p) ==
  /\ pollPc[p] = "looping"
  /\ Unprocessed(p, pollIdx[p] + 1) # {}
  /\ LET i == CHOOSE k \in Unprocessed(p, pollIdx[p] + 1) :
                 \A m \in Unprocessed(p, pollIdx[p] + 1) : k <= m
         id == pollList[p][i]
     IN /\ processedEvents' = processedEventsAdd(processedEvents, id)
        /\ handled' = [handled EXCEPT ![id] = UpTo2(@)]
        /\ pollIdx' = [pollIdx EXCEPT ![p] = i]
  /\ UNCHANGED <<eventWindow, eventsCreated, pollPc, pollList, returnedBy>>
  /\ completedEvents' = completedEvents \cup InFlight(p)
  /\ EventFrame

\* The call for the event in hand has returned and every remaining event of the
\* list is already processed: the poll returns.
processNewEventsDone(p) ==
  /\ pollPc[p] = "looping"
  /\ Unprocessed(p, pollIdx[p] + 1) = {}
  /\ pollPc' = [pollPc EXCEPT ![p] = "idle"]
  /\ pollList' = [pollList EXCEPT ![p] = <<>>]
  /\ pollIdx' = [pollIdx EXCEPT ![p] = 0]
  /\ UNCHANGED <<eventWindow, eventsCreated, processedEvents, handled, returnedBy>>
  /\ completedEvents' = completedEvents \cup InFlight(p)
  /\ EventFrame

NextEvents ==
  \/ emitEvent
  \/ EventLeavesWindow
  \/ \E p \in Polls : processNewEventsQuery(p)
  \/ \E p \in Polls : processNewEventsHandle(p)
  \/ \E p \in Polls : processNewEventsDone(p)

(***************************************************************************)
(* The timers of startMasterMonitor (agents/monitor.ts) and the errors of  *)
(* the handlers they call                                                  *)
(***************************************************************************)
SweepIdle == [pc |-> "idle", rest |-> <<>>, swept |-> {}]

InitTimers == roomSweep = SweepIdle

\* The rooms in the order prisma.room.findMany returns them.
RoomSeq == [i \in 1..NumRooms |-> i]

\* The sweep timer fires: try { const rooms = await prisma.room.findMany(...)
sweepTimerFires ==
  /\ roomSweep.pc = "idle"
  /\ roomSweep' = [pc |-> "looping", rest |-> RoomSeq, swept |-> {}]
  /\ TimerFrame

\* for (const room of rooms) await periodicSweep(room.id): the call returns and
\* the loop goes on, or one of its queries or writes rejects and the catch
\* around the loop logs the error, which ends the callback.
sweepTimerRoom(throws) ==
  /\ roomSweep.pc = "looping"
  /\ roomSweep.rest # <<>>
  /\ roomSweep' = IF throws
                    THEN [pc |-> "idle", rest |-> <<>>,
                          swept |-> roomSweep.swept \cup {Head(roomSweep.rest)}]
                    ELSE [roomSweep EXCEPT !.rest = Tail(@),
                                           !.swept = @ \cup {Head(roomSweep.rest)}]
  /\ TimerFrame

\* The loop is over and the callback returns.
sweepTimerReturns ==
  /\ roomSweep.pc = "looping"
  /\ roomSweep.rest = <<>>
  /\ roomSweep' = [roomSweep EXCEPT !.pc = "idle"]
  /\ TimerFrame

\* await masterHandleEvent(...) rejects: the error leaves the loop of
\* processNewEvents and is logged by the catch of the timer callback.
processNewEventsThrows(p) ==
  /\ pollPc[p] = "looping"
  /\ pollIdx[p] > 0
  /\ pollPc' = [pollPc EXCEPT ![p] = "idle"]
  /\ pollList' = [pollList EXCEPT ![p] = <<>>]
  /\ pollIdx' = [pollIdx EXCEPT ![p] = 0]
  /\ UNCHANGED <<eventWindow, eventsCreated, processedEvents, handled, returnedBy>>
  /\ UNCHANGED completedEvents
  /\ EventFrame

NextTimers ==
  \/ NextEvents
  \/ \E p \in Polls : processNewEventsThrows(p)
  \/ sweepTimerFires
  \/ \E throws \in BOOLEAN : sweepTimerRoom(throws)
  \/ sweepTimerReturns

(***************************************************************************)
(* Tasks, the status route, the event reactor, the sweep and               *)
(* checkDependencyResolution                                               *)
(***************************************************************************)
NumTasks == 2
MaxQueue == 1

Tasks == 1..NumTasks
Statuses == {"todo", "in_progress", "blocked", "review", "done"}

\* TaskDependency edges <<from, to>>: "to requires from done".  They are created
\* with the plan and never changed; the room of the model has every edge from a
\* lower to a higher task, so task 1 has no prerequisite and the last task has
\* several.
taskDeps == {e \in Tasks \X Tasks : e[1] < e[2]}
FromTasks(t) == {e[1] : e \in {d \in taskDeps : d[2] = t}}
Dependents(f) == {e[2] : e \in {d \in taskDeps : d[1] = f}}

\* A blockedReason: null, or a string, of which the model keeps where it comes
\* from, whether it contains "dependency", and the contract version it cites.
NullReason == [text |-> "null", dep |-> FALSE, version |-> 0]
UserReason(dep) == [text |-> "user", dep |-> dep, version |-> 0]
\* A request body's optional blockedReason: absent, or a string.
Undefined == [text |-> "undefined", dep |-> FALSE, version |-> 0]
RequestReasons == {Undefined, UserReason(TRUE), UserReason(FALSE)}

\* task.blockedReason?.includes("dependency")
includesDependency(reason) == reason # NullReason /\ reason.dep

\* prisma.task.update({data: {..., blockedReason: value}}): an undefined value
\* leaves the column as it is.
prismaSet(old, value) == IF value = Undefined THEN old ELSE value

ResOff == [pc |-> "off", completed |-> 0, deps |-> <<>>, idx |-> 0, allComplete |-> FALSE]

InitTasks ==
  /\ taskStatus = [t \in Tasks |-> "todo"]
  /\ blockedReason = [t \in Tasks |-> NullReason]

InitMonitor ==
  /\ pendingEvents = <<>>
  /\ res = [p \in {"reactor", "sweep"} |-> ResOff]
  /\ sweepPc = "idle"
  /\ sweepList = <<>>
  /\ sweepResolved = {}

\* The reactions of masterHandleEvent that touch a task: a task.status.updated
\* event with status done runs the resolver, a worker.blocked event blocks the
\* task.  (The others write alerts and notebook entries only.)
StatusEvent(t, status) == [type |-> "task.status.updated", task |-> t, status |-> status,
                           reason |-> NullReason]
WorkerBlockedEvent(t, reason) == [type |-> "worker.blocked", task |-> t, status |-> "blocked",
                                  reason |-> reason]
Recognized(e) == e.type = "worker.blocked" \/ e.status = "done"
Enqueue(queue, e) == IF Recognized(e) THEN Append(queue, e) ELSE queue

\* POST /tasks/:id/status, the update of the task.
taskStatusUpdate(t, status, reason) ==
  /\ status # "blocked" => reason = Undefined
  /\ taskStatus' = [taskStatus EXCEPT ![t] = status]
  /\ blockedReason' = [blockedReason EXCEPT
                         ![t] = prismaSet(@, IF status = "blocked" THEN reason ELSE NullReason)]

\* POST /tasks/:id/status
postTaskStatus(t, status, reason) ==
  /\ Len(pendingEvents) < MaxQueue
  /\ taskStatusUpdate(t, status, reason)
  /\ pendingEvents' = Enqueue(pendingEvents, StatusEvent(t, status))
  /\ UNCHANGED <<res, sweepPc, sweepList, sweepResolved>>
  /\ MonitorFrame

\* socket.on("event.emit"): a connected member stores an event of the type and
\* payload the client sent.
ClientEvents == {WorkerBlockedEvent(t, r) : t \in Tasks, r \in RequestReasons}
                  \cup {StatusEvent(t, "done") : t \in Tasks}

socketEventEmit(e) ==
  /\ Len(pendingEvents) < MaxQueue
  /\ pendingEvents' = Enqueue(pendingEvents, e)
  /\ UNCHANGED <<taskVars, res, sweepPc, sweepList, sweepResolved>>
  /\ MonitorFrame

\* The tasks of a set in ascending order.
RECURSIVE SeqOf(_)
SeqOf(S) == IF S = {} THEN <<>>
            ELSE LET m == CHOOSE x \in S : \A y \in S : x <= y
                 IN <<m>> \o SeqOf(S \ {m})

\* The reactor takes the oldest unhandled event: task.status.updated with
\* status done calls checkDependencyResolution(roomId, taskId).
reactorHandleDone ==
  /\ res["reactor"].pc = "off"
  /\ pendingEvents # <<>>
  /\ Head(pendingEvents).type = "task.status.updated"
  /\ pendingEvents' = Tail(pendingEvents)
  /\ res' = [res EXCEPT !["reactor"] = [ResOff EXCEPT !.pc = "query",
                                                      !.completed = Head(pendingEvents).task]]
  /\ UNCHANGED <<taskVars, sweepPc, sweepList, sweepResolved>>
  /\ MonitorFrame

\* worker.blocked: prisma.task.update({data: {status: "blocked", blockedReason: reason}})
reactorHandleWorkerBlocked ==
  /\ res["reactor"].pc = "off"
  /\ pendingEvents # <<>>
  /\ Head(pendingEvents).type = "worker.blocked"
  /\ pendingEvents' = Tail(pendingEvents)
  /\ taskStatus' = [taskStatus EXCEPT ![Head(pendingEvents).task] = "blocked"]
  /\ blockedReason' = [blockedReason EXCEPT
                         ![Head(pendingEvents).task] = prismaSet(@, Head(pendingEvents).reason)]
  /\ UNCHANGED <<res, sweepPc, sweepList, sweepResolved>>
  /\ MonitorFrame

\* "Check for dangling dependencies (tasks blocked waiting on already-done
\* tasks)": a task with prerequisites, all of them done, that is blocked with a
\* reason attributed to a dependency.
Dangling(t) ==
  /\ FromTasks(t) # {}
  /\ taskStatus[t] = "blocked"
  /\ blockedReason[t] # NullReason /\ blockedReason[t].dep
  /\ \A f \in FromTasks(t) : taskStatus[f] = "done"

\* periodicSweep: the blocked tasks of the room, as read now.
periodicSweepStart ==
  /\ sweepPc = "idle"
  /\ sweepPc' = "running"
  /\ sweepList' = SeqOf({t \in Tasks : taskStatus[t] = "blocked"})
  /\ sweepResolved' = {t \in Tasks : Dangling(t)}
  /\ UNCHANGED <<taskVars, pendingEvents, res>>
  /\ MonitorFrame

\* for (const task of blockedTasks) await checkDependencyResolution(roomId, task.id)
periodicSweepNext ==
  /\ sweepPc = "running"
  /\ res["sweep"].pc = "off"
  /\ sweepList # <<>>
  /\ res' = [res EXCEPT !["sweep"] = [ResOff EXCEPT !.pc = "query",
                                                    !.completed = Head(sweepList)]]
  /\ sweepList' = Tail(sweepList)
  /\ UNCHANGED <<taskVars, pendingEvents, sweepPc, sweepResolved>>
  /\ MonitorFrame

periodicSweepEnd ==
  /\ sweepPc = "running"
  /\ res["sweep"].pc = "off"
  /\ sweepList = <<>>
  /\ sweepPc' = "idle"
  /\ sweepResolved' = {}
  /\ UNCHANGED <<taskVars, pendingEvents, res, sweepList>>
  /\ MonitorFrame

\* checkDependencyResolution: the first query, the edges out of completedTaskId
\* with each toTask as it is now.
DependentsSnapshot(completed) ==
  LET ds == SeqOf(Dependents(completed))
  IN [i \in 1..Len(ds) |-> [task |-> ds[i], status |-> taskStatus[ds[i]],
                             reason |-> blockedReason[ds[i]]]]

checkDependencyResolutionQuery(p) ==
  /\ res[p].pc = "query"
  /\ res' = [res EXCEPT ![p].pc = "loop", ![p].deps = DependentsSnapshot(res[p].completed),
                         ![p].idx = 0]
  /\ UNCHANGED <<taskVars, pendingEvents, sweepPc, sweepList, sweepResolved>>
  /\ MonitorFrame

\* Positions after idx whose toTask was blocked when the first query read it.
BlockedAhead(r) == {i \in (r.idx + 1)..Len(r.deps) : r.deps[i].status = "blocked"}

\* allDeps.every((d) => d.fromTask.status === "done"), on the statuses as they
\* are when the second query runs.
allComplete(t) == \A f \in FromTasks(t) : taskStatus[f] = "done"

\* The loop runs on past the entries that were not blocked to the next one that
\* was, and queries that task's own dependencies; with none left the call returns.
checkDependencyResolutionNext(p) ==
  /\ res[p].pc = "loop"
  /\ IF BlockedAhead(res[p]) = {}
       THEN res' = [res EXCEPT ![p] = ResOff]
       ELSE LET i == CHOOSE k \in BlockedAhead(res[p]) : \A m \in BlockedAhead(res[p]) : k <= m
            IN res' = [res EXCEPT ![p].pc = "write", ![p].idx = i,
                                  ![p].allComplete = allComplete(res[p].deps[i].task)]
  /\ UNCHANGED <<taskVars, pendingEvents, sweepPc, sweepList, sweepResolved>>
  /\ MonitorFrame

\* if (allComplete && task.blockedReason?.includes("dependency")), on the toTask
\* of the first query.
shouldUnblock(r) == r.allComplete /\ includesDependency(r.deps[r.idx].reason)

\* prisma.task.update({data: {status: "todo", blockedReason: null}}); the
\* task.unblocked event it then emits is not a type the reactor polls for.
checkDependencyResolutionWrite(p) ==
  /\ res[p].pc = "write"
  /\ LET t == res[p].deps[res[p].idx].task
     IN IF shouldUnblock(res[p])
          THEN /\ taskStatus' = [taskStatus EXCEPT ![t] = "todo"]
               /\ blockedReason' = [blockedReason EXCEPT ![t] = NullReason]
          ELSE UNCHANGED taskVars
  /\ res' = [res EXCEPT ![p].pc = "loop"]
  /\ UNCHANGED <<pendingEvents, sweepPc, sweepList, sweepResolved>>
  /\ MonitorFrame

Next ==
  \/ \E t \in Tasks, status \in Statuses, reason \in RequestReasons :
       postTaskStatus(t, status, reason)
  \/ \E e \in ClientEvents : socketEventEmit(e)
  \/ reactorHandleDone
  \/ reactorHandleWorkerBlocked
  \/ periodicSweepStart
  \/ periodicSweepNext
  \/ periodicSweepEnd
  \/ \E p \in {"reactor", "sweep"} : checkDependencyResolutionQuery(p)
  \/ \E p \in {"reactor", "sweep"} : checkDependencyResolutionNext(p)
  \/ \E p \in {"reactor", "sweep"} : checkDependencyResolutionWrite(p)

(***************************************************************************)
(* Publishing a contract version and masterHandleContractPublished         *)
(***************************************************************************)
NumPublishes == 2
MaxVersion == 3

Publishes == 1..NumPublishes

\* The tasks with a TaskContractDependency row on the contract that is
\* published (contract 1).
ContractTasks == {t \in Tasks : <<t, 1>> \in taskContractDeps}

\* `Contract "${contract.name}" updated (v${version.version}): ${summary}`; the
\* summary is the publisher's text and may contain "dependency".
ContractReason(version, dep) == [text |-> "contract", dep |-> dep, version |-> version]

PubIdle == [pc |-> "idle", nextVersion |-> 0, breaking |-> FALSE, summaryDep |-> FALSE,
            impacted |-> <<>>, idx |-> 0, highAlerts |-> 0]

InitContracts ==
  /\ contractVersions = <<1>>
  /\ currentVersion = 1
  /\ pub = [h \in Publishes |-> PubIdle]

\* POST /contracts/:id/publish by an admin, up to the version number:
\* nextVersion = (lastVersion?.version ?? 0) + 1 on the versions stored now.
publishReadLast(h, breaking, summaryDep) ==
  /\ pub[h].pc = "idle"
  /\ Max({contractVersions[i] : i \in 1..Len(contractVersions)}) < MaxVersion
  /\ pub' = [pub EXCEPT ![h] = [PubIdle EXCEPT
                !.pc = "create",
                !.nextVersion = Max({contractVersions[i] : i \in 1..Len(contractVersions)}) + 1,
                !.breaking = breaking,
                !.summaryDep = summaryDep]]
  /\ UNCHANGED <<taskVars, contractVersions, currentVersion>>
  /\ ImpactFrame

\* The store keeps the version numbers of a contract distinct ("monotonic integer
\* version number", "strictly increasing"): a row with a number already stored
\* for the contract is refused.
versionNumberTaken(v) == \E i \in 1..Len(contractVersions) : contractVersions[i] = v

\* prisma.contractVersion.create: the row is stored, or the create throws and the
\* request ends with an error.
publishCreate(h) ==
  /\ pub[h].pc = "create"
  /\ IF versionNumberTaken(pub[h].nextVersion)
       THEN /\ pub' = [pub EXCEPT ![h] = PubIdle]
            /\ UNCHANGED contractVersions
       ELSE /\ contractVersions' = Append(contractVersions, pub[h].nextVersion)
            /\ pub' = [pub EXCEPT ![h].pc = "current"]
  /\ UNCHANGED <<taskVars, currentVersion>>
  /\ ImpactFrame

\* prisma.contract.update({currentVersionId}); the contract.published event it
\* then emits makes the reactor look at the repository only.
publishSetCurrent(h) ==
  /\ pub[h].pc = "current"
  /\ currentVersion' = pub[h].nextVersion
  /\ pub' = [pub EXCEPT ![h].pc = "analyze"]
  /\ UNCHANGED <<taskVars, contractVersions>>
  /\ ImpactFrame

\* masterHandleContractPublished: impactedTasks are the dependent tasks as they
\* are now.
ImpactedSnapshot ==
  LET ts == SeqOf(ContractTasks)
  IN [i \in 1..Len(ts) |-> [task |-> ts[i], status |-> taskStatus[ts[i]]]]

\* if (breaking && impactedTasks.length > 0): the global master.integration.alert
\* of severity high.
emitsHighAlertWhenBreaking(breaking, impactedTasks) == breaking
emitsHighAlert(breaking, impactedTasks) == breaking /\ Len(impactedTasks) > 0

\* The three reads, and after the model call the alerts, which are decided on
\* what was read.
masterHandleContractPublishedRead(h) ==
  /\ pub[h].pc = "analyze"
  /\ pub' = [pub EXCEPT
       ![h].pc = "block", ![h].impacted = ImpactedSnapshot, ![h].idx = 0,
       ![h].highAlerts = IF emitsHighAlert(pub[h].breaking, ImpactedSnapshot) THEN 1 ELSE 0]
  /\ UNCHANGED <<taskVars, contractVersions, currentVersion>>
  /\ ImpactFrame

\* if (task.status !== "done" && task.status !== "blocked"), on the task as read.
shouldBlock(status) == status # "done" /\ status # "blocked"

ToBlockAhead(r) == {i \in (r.idx + 1)..Len(r.impacted) : shouldBlock(r.impacted[i].status)}

\* After the alerts, the loop over impactedTasks: the next
\* task to block is updated; with none left the notebook entry is written and
\* the request answered.
masterHandleContractPublishedBlock(h) ==
  /\ pub[h].pc = "block"
  /\ IF ToBlockAhead(pub[h]) = {}
       THEN /\ pub' = [pub EXCEPT ![h] = PubIdle]
            /\ UNCHANGED taskVars
       ELSE LET i == CHOOSE k \in ToBlockAhead(pub[h]) : \A m \in ToBlockAhead(pub[h]) : k <= m
                t == pub[h].impacted[i].task
            IN /\ taskStatus' = [taskStatus EXCEPT ![t] = "blocked"]
               /\ blockedReason' = [blockedReason EXCEPT
                     ![t] = ContractReason(pub[h].nextVersion, pub[h].summaryDep)]
               /\ pub' = [pub EXCEPT ![h].idx = i]
  /\ UNCHANGED <<contractVersions, currentVersion>>
  /\ ImpactFrame

\* POST /tasks/:id/status while a publish is under way; the monitor is not part
\* of this specification, so the event the route stores is left out.
postTaskStatusUpdate(t, status, reason) ==
  /\ taskStatusUpdate(t, status, reason)
  /\ UNCHANGED contractVars
  /\ ImpactFrame

NextImpact ==
  \/ \E h \in Publishes, breaking \in BOOLEAN, summaryDep \in BOOLEAN :
       publishReadLast(h, breaking, summaryDep)
  \/ \E h \in Publishes : publishCreate(h)
  \/ \E h \in Publishes : publishSetCurrent(h)
  \/ \E h \in Publishes : masterHandleContractPublishedRead(h)
  \/ \E h \in Publishes : masterHandleContractPublishedBlock(h)
  \/ \E t \in Tasks, status \in Statuses, reason \in RequestReasons :
       postTaskStatusUpdate(t, status, reason)

(***************************************************************************)
(* Worker kickoff and the execution pipeline                               *)
(***************************************************************************)
NumWorkers == 2

Workers == 1..NumWorkers

\* The working tree as a pass sees it: the content of the file the planner
\* selects as target, "absent" while the file does not exist.
Contents == {"absent", "a"}

\* The blockedReason strings of the pipeline ("Agentic ...", "Verification
\* failed ..."): none of them is written with the word the resolver looks for.
PipelineReason == [text |-> "agentic", dep |-> FALSE, version |-> 0]

RunIdle == [pc |-> "idle", taskIds |-> {}, ready |-> <<>>, advanced |-> {},
            tasks |-> <<>>, task |-> 0,
            before |-> "absent", hasEdits |-> FALSE, heldAtBootstrapCommit |-> {},
            noDelta |-> FALSE, nothingToCommit |-> FALSE, committed |-> FALSE,
            pushError |-> FALSE, pushAlerts |-> 0,
            lastWrite |-> "none"]

InitExec ==
  /\ assignee = [t \in Tasks |-> 1]
  /\ executionLocks = {}
  /\ activeExecutionRuns = {}
  /\ run = [u \in Workers |-> RunIdle]
  /\ files = "a"
  /\ head = "a"
  /\ otherChanges = FALSE
  /\ toldAlreadyRunning = {}

\* POST /tasks/:id/assign by an admin: the task goes to another member.
postTaskAssign(t, u) ==
  /\ assignee[t] # u
  /\ assignee' = [assignee EXCEPT ![t] = u]
  /\ UNCHANGED <<taskVars, executionLocks, activeExecutionRuns, run, files, head, otherChanges>>
  /\ ExecFrame

\* workerKickoffAssignedTasks(roomId, userId, taskIds), called by the assign
\* route, by the reactor on task.assigned and at startup: the tasks of the user
\* are read, and those that are todo with every prerequisite done are to be
\* advanced.
readyTodoTasks(u, ids) ==
  {t \in ids : assignee[t] = u /\ taskStatus[t] = "todo" /\ allComplete(t)}

workerKickoffAssignedTasksReads(u, ids) ==
  /\ run[u].pc = "idle"
  /\ {t \in ids : assignee[t] = u} # {}
  /\ run' = [run EXCEPT ![u] = [RunIdle EXCEPT !.pc = "advance", !.taskIds = ids,
                                               !.ready = SeqOf(readyTodoTasks(u, ids))]]
  /\ UNCHANGED <<taskVars, assignee, executionLocks, activeExecutionRuns, files, head, otherChanges>>

workerKickoffAssignedTasks(u, ids) ==
  /\ workerKickoffAssignedTasksReads(u, ids)
  /\ ExecFrame

\* prisma.task.update({data: {status: "in_progress"}}) for the next ready task;
\* the blockedReason column is not written.  advanced keeps the tasks the
\* kickoff has advanced, until the run it launches enters its loop.
kickoffAdvance(u) ==
  /\ run[u].pc = "advance"
  /\ run[u].ready # <<>>
  /\ taskStatus' = [taskStatus EXCEPT ![Head(run[u].ready)] = "in_progress"]
  /\ run' = [run EXCEPT ![u].ready = Tail(@), ![u].advanced = @ \cup {Head(run[u].ready)}]
  /\ UNCHANGED <<blockedReason, assignee, executionLocks, activeExecutionRuns, files, head, otherChanges>>
  /\ ExecFrame

\* loadWorkerContext, the kickoff message, and the launch of the run for the
\* focused tasks unless a run of this user is active.
focusedTasks(u, ids) == {t \in ids : assignee[t] = u}

kickoffLaunch(u) ==
  /\ run[u].pc = "advance"
  /\ run[u].ready = <<>>
  /\ IF focusedTasks(u, run[u].taskIds) = {} \/ u \in activeExecutionRuns
       THEN /\ run' = [run EXCEPT ![u] = RunIdle]
            /\ UNCHANGED activeExecutionRuns
       ELSE /\ activeExecutionRuns' = activeExecutionRuns \cup {u}
            /\ run' = [run EXCEPT ![u].pc = "query",
                                   ![u].taskIds = focusedTasks(u, run[u].taskIds)]
  /\ UNCHANGED <<taskVars, assignee, executionLocks, files, head, otherChanges>>
  /\ ExecFrame

\* What the loop does with a task, decided on the task and its prerequisites as
\* the run's query returned them: skip it for its dependencies, move it to
\* in_progress first (todo or blocked), or plan at once.
PassMode(t) ==
  IF ~allComplete(t) THEN "dependency"
  ELSE IF taskStatus[t] \in {"todo", "blocked"} THEN "start"
  ELSE "plan"

\* runWorkerAgenticExecution: the tasks of the run, oldest first.
RunSnapshot(u, ids) ==
  LET ts == SeqOf({t \in ids : assignee[t] = u})
  IN [i \in 1..Len(ts) |-> [task |-> ts[i], mode |-> PassMode(ts[i])]]

\* The run ends: .finally(() => activeExecutionRuns.delete(runKey))
RunEnds(u) ==
  /\ run' = [run EXCEPT ![u] = RunIdle]
  /\ activeExecutionRuns' = activeExecutionRuns \ {u}

runQueryTasks(u) ==
  /\ run[u].pc = "query"
  /\ IF RunSnapshot(u, run[u].taskIds) = <<>>
       THEN RunEnds(u)
       ELSE /\ run' = [run EXCEPT ![u].pc = "workspace", ![u].taskIds = {},
                                   ![u].tasks = RunSnapshot(u, run[u].taskIds)]
            /\ UNCHANGED activeExecutionRuns
  /\ UNCHANGED <<taskVars, assignee, executionLocks, files, head, otherChanges>>
  /\ ExecFrame

\* git status --porcelain is non-empty
dirty == files # head \/ otherChanges

\* ensureRoomRepoWorkspace on the existing workspace: commitIfNeeded commits
\* whatever the working tree holds ("Initialize room workspace"); the run goes
\* on if the repository is ready and ends with a message otherwise.
ensureRoomRepoWorkspace(u, repoReady) ==
  /\ run[u].pc = "workspace"
  /\ head' = files
  /\ otherChanges' = FALSE
  /\ IF repoReady
       THEN /\ run' = [run EXCEPT ![u].pc = "loop", ![u].advanced = {},
                          ![u].heldAtBootstrapCommit = IF dirty THEN executionLocks ELSE {}]
            /\ UNCHANGED activeExecutionRuns
       ELSE RunEnds(u)
  /\ UNCHANGED <<taskVars, assignee, executionLocks, files>>
  /\ ExecFrame

\* changedFilesFromSnapshots over the one target: (before ?? null) !== (after ?? null)
changedFilesFromSnapshotsAll(before, after) == {"target"}
changedFilesFromSnapshots(before, after) == IF before # after THEN {"target"} ELSE {}

\* A status write of the pass.
PassWrites(u, status, reason) ==
  /\ taskStatus' = [taskStatus EXCEPT ![run[u].task] = status]
  /\ blockedReason' = [blockedReason EXCEPT ![run[u].task] = reason]

\* A branch that blocks the task, notifies and continues: the update is done
\* here, the notifications and the finally block in runFinally.
PassBlocks(u) ==
  /\ PassWrites(u, "blocked", PipelineReason)
  /\ run' = [run EXCEPT ![u].pc = "finally", ![u].lastWrite = "blocked"]

\* The entries at the head of the list whose lock key is in executionLocks: the
\* loop passes over them.
RECURSIVE LockedPrefix(_)
LockedPrefix(entries) ==
  IF entries # <<>> /\ Head(entries).task \in executionLocks
    THEN 1 + LockedPrefix(Tail(entries))
    ELSE 0

\* for (const task of tasks): tasks whose lock is held are passed over; the next
\* free one is locked and skipped for its dependencies, moved to in_progress, or
\* planned at once.  With no task left the run ends.
runNextTask(u) ==
  /\ run[u].pc = "loop"
  /\ LET rest == SubSeq(run[u].tasks, LockedPrefix(run[u].tasks) + 1, Len(run[u].tasks))
     IN IF rest = <<>>
          THEN /\ RunEnds(u)
               /\ UNCHANGED executionLocks
          ELSE /\ executionLocks' = executionLocks \cup {Head(rest).task}
               /\ run' = [run EXCEPT
                     ![u].tasks = Tail(rest),
                     ![u].task = Head(rest).task,
                     ![u].pc = IF Head(rest).mode = "dependency" THEN "finally"
                               ELSE Head(rest).mode]
               /\ UNCHANGED activeExecutionRuns
  /\ UNCHANGED <<taskVars, assignee, files, head, otherChanges>>
  /\ ExecFrame

\* prisma.task.update({data: {status: "in_progress", blockedReason: null}})
runStartTask(u) ==
  /\ run[u].pc = "start"
  /\ PassWrites(u, "in_progress", NullReason)
  /\ run' = [run EXCEPT ![u].pc = "plan", ![u].lastWrite = "in_progress"]
  /\ UNCHANGED <<assignee, executionLocks, activeExecutionRuns, files, head, otherChanges>>
  /\ ExecFrame

\* collectWorkspaceContext, makeExecutionPlan, selectTargetFiles: a shell or
\* planner call fails, no safe target is found, or the target is selected.
runPlan(u, outcome) ==
  /\ run[u].pc = "plan"
  /\ CASE outcome = "throws" -> run' = [run EXCEPT ![u].pc = "catch"] /\ UNCHANGED taskVars
       [] outcome = "noTargets" -> PassBlocks(u)
       [] outcome = "targets" -> run' = [run EXCEPT ![u].pc = "snapshot"] /\ UNCHANGED taskVars
  /\ UNCHANGED <<assignee, executionLocks, activeExecutionRuns, files, head, otherChanges>>
  /\ ExecFrame

\* snapshotTargetFiles: the content of each target, null for a missing file.
snapshotTargetFiles == files

runSnapshotBefore(u) ==
  /\ run[u].pc = "snapshot"
  /\ run' = [run EXCEPT ![u].pc = "patchPlan", ![u].before = snapshotTargetFiles]
  /\ UNCHANGED <<taskVars, assignee, executionLocks, activeExecutionRuns, files, head, otherChanges>>
  /\ ExecFrame

\* makePatchPlan: the call fails, or returns a plan with or without a patch and
\* with or without file edits.  With neither, the worker is told so and the loop
\* continues.
runPatchPlan(u, throws, hasPatch, hasEdits) ==
  /\ run[u].pc = "patchPlan"
  /\ throws => ~hasPatch /\ ~hasEdits
  /\ run' = [run EXCEPT ![u].hasEdits = hasPatch /\ hasEdits,
                         ![u].pc = IF throws THEN "catch"
                                   ELSE IF hasPatch THEN "applyPatch"
                                   ELSE IF hasEdits THEN "applyEdits"
                                   ELSE "finally"]
  /\ UNCHANGED <<taskVars, assignee, executionLocks, activeExecutionRuns, files, head, otherChanges>>
  /\ ExecFrame

\* ensurePatchApplies: git apply --reject succeeds or fails; either way it may
\* have rewritten, created or deleted the target and other files.  After a
\* failure the plan's file edits are tried, or a second plan is asked for if it
\* had none.
runApplyPatch(u, ok, content, others) ==
  /\ run[u].pc = "applyPatch"
  /\ files' = content
  /\ otherChanges' = (otherChanges \/ others)
  /\ run' = [run EXCEPT ![u].hasEdits = FALSE,
                         ![u].pc = IF ok THEN "after"
                                   ELSE IF run[u].hasEdits THEN "applyEdits"
                                   ELSE "retry"]
  /\ UNCHANGED <<taskVars, assignee, executionLocks, activeExecutionRuns, head>>
  /\ ExecFrame

\* applyFileEdits: the edits whose path is an allowed target are written; with
\* none applicable it throws, and the task is blocked as "Agentic patch failed".
\* Used for the plan's edits and for those of the retry plan.
runApplyFileEdits(u, applicable, content) ==
  /\ run[u].pc \in {"applyEdits", "retry"}
  /\ content # "absent"
  /\ IF applicable
       THEN /\ files' = content
            /\ run' = [run EXCEPT ![u].pc = "after"]
            /\ UNCHANGED taskVars
       ELSE /\ PassBlocks(u)
            /\ UNCHANGED files
  /\ UNCHANGED <<assignee, executionLocks, activeExecutionRuns, head, otherChanges>>
  /\ ExecFrame

\* The second snapshot and the comparison: with no changed target the task is
\* blocked as "no effective code changes".
runSnapshotAfter(u) ==
  /\ run[u].pc = "after"
  /\ IF changedFilesFromSnapshots(run[u].before, snapshotTargetFiles) = {}
       THEN /\ PassWrites(u, "blocked", PipelineReason)
            /\ run' = [run EXCEPT ![u].pc = "finally", ![u].lastWrite = "blocked",
                                   ![u].noDelta = (files = run[u].before)]
       ELSE /\ run' = [run EXCEPT ![u].pc = "verify", ![u].noDelta = (files = run[u].before)]
            /\ UNCHANGED taskVars
  /\ UNCHANGED <<assignee, executionLocks, activeExecutionRuns, files, head, otherChanges>>
  /\ ExecFrame

\* The verification commands: all pass or are skipped, or one fails and the task
\* is blocked as "Verification failed".
runVerify(u, passed) ==
  /\ run[u].pc = "verify"
  /\ IF passed
       THEN run' = [run EXCEPT ![u].pc = "commit"] /\ UNCHANGED taskVars
       ELSE PassBlocks(u)
  /\ UNCHANGED <<assignee, executionLocks, activeExecutionRuns, files, head, otherChanges>>
  /\ ExecFrame

\* git push origin <branch>, tried when the repository has a remote.
PushOutcomes == {"noRemote", "pushed", "failed"}

\* commitAndMaybePushRoomRepo: with a clean tree nothing is committed and the
\* task is blocked as "no commitable code delta"; otherwise git add -A and git
\* commit, which may fail, and with a remote the push, whose failure is returned
\* as pushError.
runCommitWithoutDelta(u, throws, push) ==
  /\ run[u].pc = "commit"
  /\ IF ~dirty
       THEN /\ ~throws /\ push = "noRemote"
            /\ run' = [run EXCEPT ![u].pc = "review", ![u].nothingToCommit = TRUE]
            /\ UNCHANGED taskVars
            /\ UNCHANGED <<head, otherChanges>>
       ELSE IF throws
         THEN /\ push = "noRemote"
              /\ run' = [run EXCEPT ![u].pc = "catch"]
              /\ UNCHANGED <<taskVars, head, otherChanges>>
         ELSE /\ head' = files
              /\ otherChanges' = FALSE
              /\ run' = [run EXCEPT ![u].pc = "review", ![u].committed = TRUE,
                                     ![u].pushError = (push = "failed")]
              /\ UNCHANGED taskVars
  /\ UNCHANGED <<assignee, executionLocks, activeExecutionRuns, files>>
  /\ ExecFrame

runCommit(u, throws, push) ==
  /\ run[u].pc = "commit"
  /\ IF ~dirty
       THEN /\ ~throws /\ push = "noRemote"
            /\ PassWrites(u, "blocked", PipelineReason)
            /\ run' = [run EXCEPT ![u].pc = "finally", ![u].lastWrite = "blocked",
                                   ![u].nothingToCommit = TRUE]
            /\ UNCHANGED <<head, otherChanges>>
       ELSE IF throws
         THEN /\ push = "noRemote"
              /\ run' = [run EXCEPT ![u].pc = "catch"]
              /\ UNCHANGED <<taskVars, head, otherChanges>>
         ELSE /\ head' = files
              /\ otherChanges' = FALSE
              /\ run' = [run EXCEPT ![u].pc = "review", ![u].committed = TRUE,
                                     ![u].pushError = (push = "failed")]
              /\ UNCHANGED taskVars
  /\ UNCHANGED <<assignee, executionLocks, activeExecutionRuns, files>>
  /\ ExecFrame

\* The awaited calls after the commit, any of which may reject: the update of the
\* task, emitTaskStatus, the alert (emitted when gitResult.pushError is set), and
\* the notebook entry, the worker message and the progress event after it.
ReviewThrows == {"none", "update", "status", "alert", "later"}

\* prisma.task.update({data: {status: "review", blockedReason: null}}) and the
\* calls after it, up to the one that rejects; a rejection is caught by the
\* catch block of the pass.
runReview(u, throwsAt) ==
  /\ run[u].pc = "review"
  /\ throwsAt = "alert" => run[u].pushError
  /\ IF throwsAt = "update"
       THEN /\ run' = [run EXCEPT ![u].pc = "catch"]
            /\ UNCHANGED taskVars
       ELSE /\ PassWrites(u, "review", NullReason)
            /\ run' = [run EXCEPT
                  ![u].pc = IF throwsAt = "none" THEN "finally" ELSE "catch",
                  ![u].lastWrite = "review",
                  ![u].pushAlerts = IF run[u].pushError /\ throwsAt \in {"none", "later"}
                                      THEN 1 ELSE 0]
  /\ UNCHANGED <<assignee, executionLocks, activeExecutionRuns, files, head, otherChanges>>
  /\ ExecFrame

\* catch (err): the task is blocked as "Agentic execution error".  The event or
\* the message of the handler may throw in turn: the finally block runs and the
\* error leaves the loop, so the remaining tasks of the run are not visited.
runCatch(u, handlerThrows) ==
  /\ run[u].pc = "catch"
  /\ PassWrites(u, "blocked", PipelineReason)
  /\ run' = [run EXCEPT ![u].pc = "finally", ![u].lastWrite = "blocked",
                         ![u].tasks = IF handlerThrows THEN <<>> ELSE @]
  /\ UNCHANGED <<assignee, executionLocks, activeExecutionRuns, files, head, otherChanges>>
  /\ ExecFrame

\* The notifications of the branch taken, then finally: executionLocks.delete(lockKey)
runFinallyAfterWriteOnly(u) ==
  /\ run[u].pc = "finally"
  /\ executionLocks' = IF run[u].lastWrite = "none" THEN executionLocks
                       ELSE executionLocks \ {run[u].task}
  /\ run' = [run EXCEPT ![u] = [RunIdle EXCEPT
                !.pc = "loop", !.tasks = run[u].tasks,
                !.heldAtBootstrapCommit = run[u].heldAtBootstrapCommit]]
  /\ UNCHANGED <<taskVars, assignee, activeExecutionRuns, files, head, otherChanges>>
  /\ ExecFrame

runFinally(u) ==
  /\ run[u].pc = "finally"
  /\ executionLocks' = executionLocks \ {run[u].task}
  /\ run' = [run EXCEPT ![u] = [RunIdle EXCEPT
                !.pc = "loop", !.tasks = run[u].tasks,
                !.heldAtBootstrapCommit = run[u].heldAtBootstrapCommit]]
  /\ UNCHANGED <<taskVars, assignee, activeExecutionRuns, files, head, otherChanges>>
  /\ ExecFrame

\* The kickoff: its start, the advance of the ready tasks and the launch.
NextKickoff ==
  \/ \E u \in Workers, ids \in SUBSET Tasks : workerKickoffAssignedTasks(u, ids)
  \/ \E u \in Workers : kickoffAdvance(u)
  \/ \E u \in Workers : kickoffLaunch(u)

\* The steps of a launched run, from its query to the release of a task's lock.
NextPass ==
  \/ \E u \in Workers : runQueryTasks(u)
  \/ \E u \in Workers, repoReady \in BOOLEAN : ensureRoomRepoWorkspace(u, repoReady)
  \/ \E u \in Workers : runNextTask(u)
  \/ \E u \in Workers : runStartTask(u)
  \/ \E u \in Workers, outcome \in {"throws", "noTargets", "targets"} : runPlan(u, outcome)
  \/ \E u \in Workers : runSnapshotBefore(u)
  \/ \E u \in Workers, throws, hasPatch, hasEdits \in BOOLEAN :
       runPatchPlan(u, throws, hasPatch, hasEdits)
  \/ \E u \in Workers, ok \in BOOLEAN, content \in Contents, others \in BOOLEAN :
       runApplyPatch(u, ok, content, others)
  \/ \E u \in Workers, applicable \in BOOLEAN, content \in Contents :
       runApplyFileEdits(u, applicable, content)
  \/ \E u \in Workers : runSnapshotAfter(u)
  \/ \E u \in Workers, passed \in BOOLEAN : runVerify(u, passed)
  \/ \E u \in Workers, throws \in BOOLEAN, push \in PushOutcomes : runCommit(u, throws, push)
  \/ \E u \in Workers, throwsAt \in ReviewThrows : runReview(u, throwsAt)
  \/ \E u \in Workers, handlerThrows \in BOOLEAN : runCatch(u, handlerThrows)
  \/ \E u \in Workers : runFinally(u)

\* The steps of the kickoff and of the pass, for the workers the tasks are
\* assigned to.
NextPipeline == NextKickoff \/ NextPass

NextExec ==
  \/ \E t \in Tasks, u \in Workers : postTaskAssign(t, u)
  \/ NextPipeline

\* getActiveExecutionTaskIds: the user's tasks that are todo or in_progress, and,
\* when the message asks for a retry, those blocked with a reason that contains
\* "agentic", "patch" or "verification", as every reason of the pipeline does.
getActiveExecutionTaskIds(u, allowBlockedRetry) ==
  {t \in Tasks :
     /\ assignee[t] = u
     /\ \/ taskStatus[t] \in {"todo", "in_progress"}
        \/ allowBlockedRetry /\ taskStatus[t] = "blocked" /\ blockedReason[t] = PipelineReason}

\* workerHandleMessage, from the reply on: with tasks to execute, the worker is
\* told that a pass is already running if the user's run key is in
\* activeExecutionRuns, and otherwise the run is launched.
workerHandleMessage(u, allowBlockedRetry) ==
  /\ getActiveExecutionTaskIds(u, allowBlockedRetry) # {}
  /\ IF u \in activeExecutionRuns
       THEN /\ toldAlreadyRunning' = toldAlreadyRunning \cup {u}
            /\ UNCHANGED <<activeExecutionRuns, run>>
       ELSE /\ run[u].pc = "idle"
            /\ activeExecutionRuns' = activeExecutionRuns \cup {u}
            /\ run' = [run EXCEPT ![u] = [RunIdle EXCEPT
                          !.pc = "query",
                          !.taskIds = getActiveExecutionTaskIds(u, allowBlockedRetry)]]
            /\ UNCHANGED toldAlreadyRunning
  /\ UNCHANGED <<taskVars, assignee, executionLocks, files, head, otherChanges>>
  /\ ChatFrame

\* The tasks that change hands while the pipelines run.
ReassignedTasks == {1}

\* The pipeline with both of its triggers, the kickoff and the worker chat,
\* beside the reassignment of a task.
NextTrigger ==
  \/ \E t \in ReassignedTasks, u \in Workers : postTaskAssign(t, u)
  \/ NextPipeline
  \/ \E u \in Workers, allowBlockedRetry \in BOOLEAN : workerHandleMessage(u, allowBlockedRetry)

\* The pipeline of the workers the tasks are assigned to, beside the members'
\* status requests (POST /tasks/:id/status); no task is reassigned.
NextGate ==
  \/ NextPipeline
  \/ \E t \in Tasks, status \in Statuses, reason \in RequestReasons :
       postTaskStatusUpdate(t, status, reason)

(***************************************************************************)
(* detectBreakingChange (routes/contracts.ts), for a contract of type       *)
(* openapi                                                                 *)
(***************************************************************************)
MaxContentLen == 5

\* Contract content is a string; the model's strings are sequences over three
\* characters: "/", "a" for any of [a-zA-Z0-9_{}], and " " for any character
\* outside the class of the pattern.
Chars == {"/", "a", " "}
PathChars == {"/", "a"}
ContractContents == UNION {[1..n -> Chars] : n \in 0..MaxContentLen}

DetectIdle == [pc |-> "idle", old |-> <<>>, new |-> <<>>, breaking |-> FALSE]

InitDetect == detect = DetectIdle

\* The last position of the run of path characters that starts at i.
RECURSIVE RunEnd(_, _)
RunEnd(s, i) == IF i < Len(s) /\ s[i + 1] \in PathChars THEN RunEnd(s, i + 1) ELSE i

\* content.match(/\/[a-zA-Z0-9/_{}]+/g) ?? []: the matches from position i on,
\* leftmost first, each as long as it can be, none overlapping another.
RECURSIVE matchPaths(_, _)
matchPaths(s, i) ==
  IF i > Len(s) THEN <<>>
  ELSE IF s[i] = "/" /\ i < Len(s) /\ s[i + 1] \in PathChars
    THEN <<SubSeq(s, i, RunEnd(s, i + 1))>> \o matchPaths(s, RunEnd(s, i + 1) + 1)
    ELSE matchPaths(s, i + 1)

\* oldPaths.some((p) => !newPaths.has(p))
somePathRemoved(oldPaths, newPaths) ==
  \E k \in 1..Len(oldPaths) : \A m \in 1..Len(newPaths) : newPaths[m] # oldPaths[k]

detectBreakingChangeSwapped(oldContent, newContent) ==
  somePathRemoved(matchPaths(newContent, 1), matchPaths(oldContent, 1))
detectBreakingChange(oldContent, newContent) ==
  somePathRemoved(matchPaths(oldContent, 1), matchPaths(newContent, 1))

\* POST /contracts/:id/publish with breaking: false on a contract that has a
\* current version: the heuristic is run on the current content and on the new
\* content, which the route requires to be non-empty.
publishDetectBreaking ==
  /\ detect.pc = "idle"
  /\ \E oldContent \in ContractContents, newContent \in ContractContents \ {<<>>} :
       detect' = [pc |-> "returned", old |-> oldContent, new |-> newContent,
                  breaking |-> detectBreakingChange(oldContent, newContent)]
  /\ DetectFrame

\* The request is answered.
publishDetectDone ==
  /\ detect.pc = "returned"
  /\ detect' = DetectIdle
  /\ DetectFrame

NextDetect ==
  \/ publishDetectBreaking
  \/ publishDetectDone

(***************************************************************************)
(* The command-level verification of a pass (agents/agentic.ts)            *)
(***************************************************************************)
MaxCommands == 3

\* A verification command, as far as the loop looks at it: whether it passes
\* isSafeVerificationCommand and sets no NODE_ENV, whether the script it names
\* (if it names one) is declared in package.json, and how runShell ends for it.
Commands == [safe : BOOLEAN, declared : BOOLEAN, exits : {"ok", "error"}]
CommandLists == UNION {[1..n -> Commands] : n \in 0..MaxCommands}

canRunVerificationCommand(cmd) == cmd.safe /\ cmd.declared

VerifyIdle == [pc |-> "idle", cmds |-> <<>>, idx |-> 0, logs |-> <<>>,
               verificationFailed |-> FALSE, next |-> "none"]

InitVerify == verification = VerifyIdle

\* const verificationCommands = the plan's commands, or the fallback ones.
verificationStart ==
  /\ verification.pc = "idle"
  /\ \E cmds \in CommandLists :
       verification' = [VerifyIdle EXCEPT !.pc = "loop", !.cmds = cmds, !.idx = 1]
  /\ VerifyFrame

\* One round of for (const cmd of verificationCommands): the command is skipped,
\* or run; when runShell rejects, the task is blocked and the loop is left.
verificationCommandNoBreak ==
  /\ verification.pc = "loop"
  /\ verification.idx <= Len(verification.cmds)
  /\ LET k == verification.idx
         cmd == verification.cmds[k]
     IN IF ~canRunVerificationCommand(cmd)
          THEN verification' = [verification EXCEPT
                 !.logs = Append(@, [cmd |-> k, result |-> "SKIPPED"]), !.idx = k + 1]
          ELSE IF cmd.exits = "ok"
            THEN verification' = [verification EXCEPT
                   !.logs = Append(@, [cmd |-> k, result |-> "output"]), !.idx = k + 1]
            ELSE verification' = [verification EXCEPT
                   !.logs = Append(@, [cmd |-> k, result |-> "FAILED"]),
                   !.verificationFailed = TRUE, !.idx = k + 1]
  /\ VerifyFrame

verificationCommand ==
  /\ verification.pc = "loop"
  /\ verification.idx <= Len(verification.cmds)
  /\ LET k == verification.idx
         cmd == verification.cmds[k]
     IN IF ~canRunVerificationCommand(cmd)
          THEN verification' = [verification EXCEPT
                 !.logs = Append(@, [cmd |-> k, result |-> "SKIPPED"]), !.idx = k + 1]
          ELSE IF cmd.exits = "ok"
            THEN verification' = [verification EXCEPT
                   !.logs = Append(@, [cmd |-> k, result |-> "output"]), !.idx = k + 1]
            ELSE verification' = [verification EXCEPT
                   !.logs = Append(@, [cmd |-> k, result |-> "FAILED"]),
                   !.verificationFailed = TRUE, !.pc = "after"]
  /\ VerifyFrame

\* The loop is over: if (verificationFailed) continue, with the task blocked by
\* the failing round; otherwise commitAndMaybePushRoomRepo is called.
verificationEnd ==
  /\ \/ verification.pc = "after"
     \/ verification.pc = "loop" /\ verification.idx > Len(verification.cmds)
  /\ verification' = [verification EXCEPT
       !.pc = "done",
       !.next = IF verification.verificationFailed THEN "blocked" ELSE "commit"]
  /\ VerifyFrame

\* The pass goes on from there.
verificationDone ==
  /\ verification.pc = "done"
  /\ verification' = VerifyIdle
  /\ VerifyFrame

NextVerify ==
  \/ verificationStart
  \/ verificationCommand
  \/ verificationEnd
  \/ verificationDone

(***************************************************************************)
(* Contracts, task-contract dependencies and validateContractGraph          *)
(* (routes/rooms.ts, agents/monitor.ts)                                    *)
(***************************************************************************)
NumContracts == 2

ContractIds == 1..NumContracts

ValidateIdle == [pc |-> "idle", contractIds |-> {}, deps |-> <<>>]

\* The room after its plan: contract 1 exists and every task but the first has
\* been linked to it.
InitGraph ==
  /\ contracts = {1}
  /\ taskContractDeps = {<<t, 1>> : t \in Tasks \ {1}}
  /\ validate = ValidateIdle

\* POST /rooms/:id/plan: prisma.contract.create for a contract of the plan.
contractCreate(c) ==
  /\ c \notin contracts
  /\ contracts' = contracts \cup {c}
  /\ UNCHANGED <<taskContractDeps, validate>>
  /\ GraphFrame

\* A contract row is removed ("whose contract no longer exists"); the rows that
\* link tasks to it stay.  The contract under publication is kept.
contractRemove(c) ==
  /\ c \in contracts /\ c # 1
  /\ contracts' = contracts \ {c}
  /\ UNCHANGED <<taskContractDeps, validate>>
  /\ GraphFrame

\* INSERT INTO "TaskContractDependency": a task is linked to an existing contract.
linkTaskContract(t, c) ==
  /\ c \in contracts
  /\ <<t, c>> \notin taskContractDeps
  /\ taskContractDeps' = taskContractDeps \cup {<<t, c>>}
  /\ UNCHANGED <<contracts, validate>>
  /\ GraphFrame

\* The rows of a findMany, in the order of their ids.
RECURSIVE RowSeq(_)
RowSeq(S) ==
  IF S = {} THEN <<>>
  ELSE LET e == CHOOSE x \in S : \A y \in S : x[1] < y[1] \/ (x[1] = y[1] /\ x[2] <= y[2])
       IN <<e>> \o RowSeq(S \ {e})

\* validateContractGraph: const contractIds = new Set(allContracts.map(c => c.id))
validateContractGraphContracts ==
  /\ validate.pc = "idle"
  /\ validate' = [validate EXCEPT !.pc = "deps", !.contractIds = contracts]
  /\ UNCHANGED <<contracts, taskContractDeps>>
  /\ GraphFrame

\* const allTaskContractDeps = await prisma.taskContractDependency.findMany(...)
validateContractGraphDeps ==
  /\ validate.pc = "deps"
  /\ validate' = [validate EXCEPT !.pc = "loop", !.deps = RowSeq(taskContractDeps)]
  /\ UNCHANGED <<contracts, taskContractDeps>>
  /\ GraphFrame

\* if (!contractIds.has(dep.contractId)) await prisma.taskContractDependency.delete(...)
isDangling(contractIds, dep) == dep[2] \notin contractIds

validateContractGraphNext ==
  /\ validate.pc = "loop"
  /\ validate.deps # <<>>
  /\ taskContractDeps' = IF isDangling(validate.contractIds, Head(validate.deps))
                            THEN taskContractDeps \ {Head(validate.deps)}
                            ELSE taskContractDeps
  /\ validate' = [validate EXCEPT !.deps = Tail(@)]
  /\ UNCHANGED contracts
  /\ GraphFrame

validateContractGraphReturns ==
  /\ validate.pc = "loop"
  /\ validate.deps = <<>>
  /\ validate' = ValidateIdle
  /\ UNCHANGED <<contracts, taskContractDeps>>
  /\ GraphFrame

NextGraph ==
  \/ \E c \in ContractIds : contractCreate(c)
  \/ \E c \in ContractIds : contractRemove(c)
  \/ \E t \in Tasks, c \in ContractIds : linkTaskContract(t, c)
  \/ validateContractGraphContracts
  \/ validateContractGraphDeps
  \/ validateContractGraphNext
  \/ validateContractGraphReturns

\* Publishing with the impact analysis, without the members' status requests.
NextAlert ==
  \/ \E h \in Publishes, breaking \in BOOLEAN, summaryDep \in BOOLEAN :
       publishReadLast(h, breaking, summaryDep)
  \/ \E h \in Publishes : publishCreate(h)
  \/ \E h \in Publishes : publishSetCurrent(h)
  \/ \E h \in Publishes : masterHandleContractPublishedRead(h)
  \/ \E h \in Publishes : masterHandleContractPublishedBlock(h)

(***************************************************************************)
(* The alerts of periodicSweep and monitorRoomRepoSignals                   *)
(* (agents/monitor.ts)                                                     *)
(***************************************************************************)
SWEEP_INTERVAL == 30
MaxSweeps == 3

InitSweepAlerts == sweepAlerts = [sweeps |-> 0, last |-> 0, log |-> <<>>]

\* One sweep of the room, as far as it emits alerts.  With stale tasks
\* (in_progress or review, not updated for 30 minutes) each affected user gets
\* a master.integration.alert; then, after the resolver and the graph check,
\* monitorRoomRepoSignals emits the alert of a repository condition (here:
\* merge conflicts) if shouldEmitSignal allows it for the condition's key.
periodicSweepAlerts(stale, conflicts) ==
  /\ sweepAlerts.sweeps < MaxSweeps
  /\ sweepAlerts.last = 0 \/ now - sweepAlerts.last >= SWEEP_INTERVAL
  /\ conflicts => Len(signalLog) < MaxSignalCalls
  /\ LET key == "repo-conflicts"
         result == shouldEmitSignal(lastSignalAt[key], now, CooldownOf(key))
         staleAlert == IF stale THEN <<[key |-> "stale-tasks", at |-> now]>> ELSE <<>>
         repoAlert == IF conflicts /\ result THEN <<[key |-> key, at |-> now]>> ELSE <<>>
     IN /\ lastSignalAt' = IF conflicts /\ result THEN [lastSignalAt EXCEPT ![key] = now]
                                                  ELSE lastSignalAt
        /\ signalLog' = IF conflicts
                          THEN Append(signalLog, [key |-> key, at |-> now, result |-> result])
                          ELSE signalLog
        /\ sweepAlerts' = [sweeps |-> sweepAlerts.sweeps + 1, last |-> now,
                           log |-> sweepAlerts.log \o staleAlert \o repoAlert]
  /\ UNCHANGED now
  /\ UNCHANGED <<lockVars, eventVars, taskVars, monitorVars, contractVars, execVars, chatVars,
                 repoVars, timerVars, detectVars, verifyVars, graphVars, workspaceVars,
                 flagVars, applyVars, launchVars, assignVars, treeVars, chainVars>>

NextSweepAlerts ==
  \/ \E stale, conflicts \in BOOLEAN : periodicSweepAlerts(stale, conflicts)
  \/ \E d \in ClockSteps : AdvanceClock(d)

(***************************************************************************)
(* The bootstrap of a room's workspace: ensureRoomRepoWorkspace             *)
(* (services/roomRepo.ts)                                                  *)
(***************************************************************************)
\* A workspace before its first bootstrap, with no call in flight.  gitRoot: the
\* directory has a .git; commits: whether HEAD has a commit; readme and dirty:
\* README.md exists, the working tree has uncommitted changes; repoReady: the
\* call's local flag; stored: the room's repoReady column; returned: what calls
\* have returned so far.
WorkspaceNone ==
  [pc |-> "idle", remote |-> FALSE, gitRoot |-> FALSE, commits |-> 0, readme |-> FALSE,
   dirty |-> FALSE, repoReady |-> FALSE, stored |-> FALSE, returned |-> {}]

InitWorkspace == workspace = [r \in Rooms |-> WorkspaceNone]

\* let repoReady = false; the call enters the room's critical section.
bootstrapCall(r, remote) ==
  /\ workspace[r].pc = "idle"
  /\ workspace' = [workspace EXCEPT ![r].pc = "clone", ![r].remote = remote,
                                    ![r].repoReady = FALSE]
  /\ WorkspaceFrame

CloneOutcomes == {"failed", "empty", "history"}

\* git clone --depth 1 when the directory is missing and the room has a remote;
\* a failure is noted in repoLastError and the bootstrap goes on.
bootstrapClone(r, outcome) ==
  /\ workspace[r].pc = "clone"
  /\ IF workspace[r].remote /\ ~workspace[r].gitRoot /\ ~workspace[r].readme
          /\ outcome # "failed"
       THEN workspace' = [workspace EXCEPT
              ![r].pc = "init", ![r].gitRoot = TRUE,
              ![r].commits = IF outcome = "history" THEN 1 ELSE 0,
              ![r].readme = (outcome = "history")]
       ELSE workspace' = [workspace EXCEPT ![r].pc = "init"]
  /\ WorkspaceFrame

\* ensureGitInitialized: git init when there is no .git; when both attempts fail
\* the error reaches the catch of ensureRoomRepoWorkspace, which sets
\* repoReady = false.
ensureGitInitialized(r, ok) ==
  /\ workspace[r].pc = "init"
  /\ workspace' = [workspace EXCEPT
       ![r].pc = IF workspace[r].gitRoot \/ ok THEN "readme" ELSE "store",
       ![r].gitRoot = workspace[r].gitRoot \/ ok]
  /\ WorkspaceFrame

\* ensureInitialReadme: README.md is written unless it exists; a failed write
\* reaches the catch.
ensureInitialReadme(r, ok) ==
  /\ workspace[r].pc = "readme"
  /\ IF workspace[r].readme
       THEN workspace' = [workspace EXCEPT ![r].pc = "commit"]
       ELSE IF ok
         THEN workspace' = [workspace EXCEPT ![r].pc = "commit", ![r].readme = TRUE,
                                             ![r].dirty = TRUE]
         ELSE workspace' = [workspace EXCEPT ![r].pc = "store"]
  /\ WorkspaceFrame

CommitOutcomes == {"statusFails", "addFails", "commitFails", "ok"}

\* The commit that commitIfNeeded leaves: none when git status fails or prints
\* nothing, none when git add or git commit fails, as both errors are swallowed.
commitsAfter(w, outcome) == IF w.dirty /\ outcome = "ok" THEN 1 ELSE w.commits

\* await commitIfNeeded(workspacePath).catch(() => undefined)
commitIfNeeded(r, outcome) ==
  /\ workspace[r].pc = "commit"
  /\ workspace' = [workspace EXCEPT
       ![r].pc = "revParse",
       ![r].commits = commitsAfter(workspace[r], outcome),
       ![r].dirty = workspace[r].dirty /\ outcome # "ok"]
  /\ WorkspaceFrame

\* repoReady = git rev-parse --is-inside-work-tree printed "true"; false when the
\* command fails.
bootstrapRevParse(r, ok) ==
  /\ workspace[r].pc = "revParse"
  /\ workspace' = [workspace EXCEPT ![r].pc = "store",
                                    ![r].repoReady = ok /\ workspace[r].gitRoot]
  /\ WorkspaceFrame

\* prisma.room.update({data: {repoReady, ...}}).catch(() => undefined), and the
\* return of the flag.
bootstrapStore(r, updateOk) ==
  /\ workspace[r].pc = "store"
  /\ workspace' = [workspace EXCEPT
       ![r].pc = "idle",
       ![r].stored = IF updateOk THEN workspace[r].repoReady ELSE workspace[r].stored,
       ![r].returned = workspace[r].returned \cup {workspace[r].repoReady}]
  /\ WorkspaceFrame

NextWorkspace ==
  \/ \E r \in Rooms, remote \in BOOLEAN : bootstrapCall(r, remote)
  \/ \E r \in Rooms, outcome \in CloneOutcomes : bootstrapClone(r, outcome)
  \/ \E r \in Rooms, ok \in BOOLEAN : ensureGitInitialized(r, ok)
  \/ \E r \in Rooms, ok \in BOOLEAN : ensureInitialReadme(r, ok)
  \/ \E r \in Rooms, outcome \in CommitOutcomes : commitIfNeeded(r, outcome)
  \/ \E r \in Rooms, ok \in BOOLEAN : bootstrapRevParse(r, ok)
  \/ \E r \in Rooms, updateOk \in BOOLEAN : bootstrapStore(r, updateOk)

(***************************************************************************)
(* The breaking flag of a published version: POST /contracts/:id/publish    *)
(* (routes/contracts.ts), for a contract of type openapi                   *)
(***************************************************************************)
MaxPublished == 3

\* The contents that publishers send: a path, the path with a second one, the
\* second path alone, and a text without any path.
PublishedContents ==
  {<<"/", "a">>, <<"/", "a", " ", "/", "/">>, <<"/", "/">>, <<"a", " ", "a">>}

\* A request before its body is parsed.  explicit: data.breaking; content:
\* data.content; current: contract.currentVersionId as getContractWithAccess
\* read it (0 for null); breaking: the local variable; consulted: whether
\* detectBreakingChange was called.
FlagIdle ==
  [pc |-> "idle", explicit |-> FALSE, content |-> <<>>, current |-> 0,
   breaking |-> FALSE, consulted |-> FALSE]

\* versions: the ContractVersion rows in the order of their creation, each with
\* the request's inputs kept beside the stored content and flag; current: the
\* contract's currentVersionId.
InitFlag ==
  publishFlag = [versions |-> <<>>, current |-> 0, req |-> [h \in Publishes |-> FlagIdle]]

\* if (!breaking) { currentVersion = contract.currentVersionId ? findUnique : null;
\* if (currentVersion) ... }: whether the heuristic is called.
consultsHeuristicAlways(breaking, currentVersionId) == currentVersionId # 0
consultsHeuristic(breaking, currentVersionId) == ~breaking /\ currentVersionId # 0

\* getContractWithAccess and the parse of the body; let breaking = data.breaking.
publishFlagRead(h, explicit, content) ==
  /\ publishFlag.req[h].pc = "idle"
  /\ Len(publishFlag.versions) < MaxPublished
  /\ publishFlag' = [publishFlag EXCEPT !.req[h] =
       [pc |-> IF consultsHeuristic(explicit, publishFlag.current) THEN "lookup" ELSE "create",
        explicit |-> explicit, content |-> content, current |-> publishFlag.current,
        breaking |-> explicit, consulted |-> FALSE]]
  /\ FlagFrame

\* prisma.contractVersion.findUnique({where: {id: contract.currentVersionId}}) and
\* breaking = detectBreakingChange(contract.type, currentVersion.content, data.content).
publishFlagLookup(h) ==
  /\ publishFlag.req[h].pc = "lookup"
  /\ publishFlag' = [publishFlag EXCEPT
       !.req[h].pc = "create",
       !.req[h].consulted = TRUE,
       !.req[h].breaking =
          detectBreakingChange(publishFlag.versions[publishFlag.req[h].current].content,
                               publishFlag.req[h].content)]
  /\ FlagFrame

\* prisma.contractVersion.create({data: {content, breaking, ...}}) and the update
\* of the contract's currentVersionId; the request is answered.
publishFlagCreate(h) ==
  /\ publishFlag.req[h].pc = "create"
  /\ Len(publishFlag.versions) < MaxPublished
  /\ publishFlag' = [publishFlag EXCEPT
       !.versions = Append(@, [content |-> publishFlag.req[h].content,
                               breaking |-> publishFlag.req[h].breaking,
                               explicit |-> publishFlag.req[h].explicit,
                               basis |-> publishFlag.req[h].current,
                               consulted |-> publishFlag.req[h].consulted]),
       !.current = Len(publishFlag.versions) + 1,
       !.req[h] = FlagIdle]
  /\ FlagFrame

NextFlag ==
  \/ \E h \in Publishes, explicit \in BOOLEAN, content \in PublishedContents :
       publishFlagRead(h, explicit, content)
  \/ \E h \in Publishes : publishFlagLookup(h)
  \/ \E h \in Publishes : publishFlagCreate(h)

(***************************************************************************)
(* applyFileEdits and its path checks (agents/agentic.ts)                  *)
(***************************************************************************)
MaxEdits == 2
MaxSegments == 2

\* A path is a flag for a leading "/" and its segments; the file names stand
\* for the cases of the checks.  The workspace is the directory /ws.
SegmentNames == {"..", "ws", "src", "a.ts", "a.png", "a.bin", "Dockerfile", "notes"}
EditPaths ==
  [abs : BOOLEAN, segs : UNION {[1..n -> SegmentNames] : n \in 1..MaxSegments}]
WorkspaceRoot == <<"ws">>

\* path.extname(p).toLowerCase() and path.basename(p).toLowerCase()
extname(p) ==
  LET name == p.segs[Len(p.segs)]
  IN CASE name = "a.ts" -> ".ts"
       [] name = "a.png" -> ".png"
       [] name = "a.bin" -> ".bin"
       [] OTHER -> ""
basename(p) ==
  LET name == p.segs[Len(p.segs)]
  IN IF name = "Dockerfile" THEN "dockerfile" ELSE name

EDITABLE_FILE_EXTENSIONS == {".ts", ".json", ".md"}
BLOCKED_BINARY_EXTENSIONS == {".png", ".pdf"}
ALLOWED_EXTENSIONLESS_FILES == {"dockerfile", "makefile", ".gitignore"}

\* if (!p || path.isAbsolute(p)) return false; if (p.includes("..")) return false;
isSafeRelativePath(p) ==
  /\ ~p.abs
  /\ \A i \in 1..Len(p.segs) : p.segs[i] # ".."

isEditableTargetPathAnyName(relPath) == isSafeRelativePath(relPath)
isEditableTargetPath(relPath) ==
  /\ isSafeRelativePath(relPath)
  /\ ~(extname(relPath) # "" /\ extname(relPath) \in BLOCKED_BINARY_EXTENSIONS)
  /\ IF extname(relPath) # ""
       THEN extname(relPath) \in EDITABLE_FILE_EXTENSIONS
       ELSE basename(relPath) \in ALLOWED_EXTENSIONLESS_FILES

\* path.resolve(cwd, relPath): the directories and the file name of the result,
\* from the root; ".." leaves a directory and stays at the root.
RECURSIVE resolveFrom(_, _, _)
resolveFrom(at, segs, i) ==
  IF i > Len(segs) THEN at
  ELSE IF segs[i] = ".."
    THEN resolveFrom(IF at = <<>> THEN <<>> ELSE SubSeq(at, 1, Len(at) - 1), segs, i + 1)
    ELSE resolveFrom(Append(at, segs[i]), segs, i + 1)
resolve(p) == resolveFrom(IF p.abs THEN <<>> ELSE WorkspaceRoot, p.segs, 1)

\* absPath.startsWith(`${workspace}${path.sep}`)
insideWorkspace(absPath) ==
  /\ Len(absPath) > Len(WorkspaceRoot)
  /\ SubSeq(absPath, 1, Len(WorkspaceRoot)) = WorkspaceRoot

ApplyIdle ==
  [pc |-> "idle", allowedPaths |-> {}, edits |-> 0, edit |-> <<>>, seen |-> {},
   appliedPaths |-> {}, written |-> {}]

InitApply == apply = ApplyIdle

\* The selected target files of a pass.
TargetCandidates ==
  {[abs |-> FALSE, segs |-> <<"src", "a.ts">>], [abs |-> FALSE, segs |-> <<"a.bin">>],
   [abs |-> FALSE, segs |-> <<"Dockerfile">>], [abs |-> FALSE, segs |-> <<"..", "a.ts">>],
   [abs |-> TRUE, segs |-> <<"ws", "a.ts">>], [abs |-> FALSE, segs |-> <<"src", "notes">>]}

applyFileEditsCall(allowedPaths) ==
  /\ apply.pc \in {"idle", "returned", "threw"}
  /\ apply' = [ApplyIdle EXCEPT !.pc = "loop", !.allowedPaths = allowedPaths]
  /\ ApplyFrame

\* One turn of the loop over fileEdits: the edit is passed over when a check
\* fails, and its file is written otherwise.  edit keeps the path of the turn.
applyFileEditsEdit(relPath) ==
  /\ apply.pc = "loop"
  /\ apply.edits < MaxEdits
  /\ IF \/ ~isSafeRelativePath(relPath)
        \/ ~isEditableTargetPath(relPath)
        \/ relPath \notin apply.allowedPaths
        \/ relPath \in apply.seen
       THEN apply' = [apply EXCEPT !.edits = @ + 1, !.edit = <<relPath>>]
       ELSE IF ~insideWorkspace(resolve(relPath))
         THEN apply' = [apply EXCEPT !.edits = @ + 1, !.edit = <<relPath>>,
                                     !.seen = @ \cup {relPath}]
         ELSE apply' = [apply EXCEPT !.edits = @ + 1, !.edit = <<relPath>>,
                                     !.seen = @ \cup {relPath},
                                     !.written = @ \cup {resolve(relPath)},
                                     !.appliedPaths = @ \cup {relPath}]
  /\ ApplyFrame

\* After the loop: throw new Error("No safe file edits were applicable.") with
\* nothing applied, and the return of appliedPaths otherwise.
applyFileEditsEnd ==
  /\ apply.pc = "loop"
  /\ apply.edits > 0
  /\ apply' = [apply EXCEPT !.pc = IF apply.appliedPaths = {} THEN "threw" ELSE "returned"]
  /\ ApplyFrame

NextApply ==
  \/ \E allowedPaths \in SUBSET TargetCandidates : applyFileEditsCall(allowedPaths)
  \/ \E relPath \in EditPaths : applyFileEditsEdit(relPath)
  \/ applyFileEditsEnd

(***************************************************************************)
(* The run key of a user: activeExecutionRuns in workerHandleMessage and    *)
(* workerKickoffAssignedTasks (agents/worker.ts)                           *)
(***************************************************************************)
NumTriggers == 2
Triggers == 1..NumTriggers
TriggerKinds == {"message", "kickoff"}

\* A trigger is a call of workerHandleMessage or workerKickoffAssignedTasks that
\* has tasks to execute.  inFlight: the calls of runWorkerAgenticExecution of a
\* user that have not settled; ended: how the user's last run settled; told:
\* the users told that a pass is already running.
TriggerIdle == [pc |-> "idle", user |-> 0, kind |-> "none"]

InitLaunch ==
  launch = [trigger |-> [h \in Triggers |-> TriggerIdle],
            inFlight |-> [u \in Workers |-> 0],
            ended |-> [u \in Workers |-> "none"],
            told |-> {}]

\* activeExecutionRuns.has(runKey)
runKeyActiveNever(keys, u) == FALSE
runKeyActive(keys, u) == u \in keys

\* After the reply is stored: with the key present the message handler tells the
\* user and the kickoff returns; otherwise the key is added.
triggerCheck(h, u, kind) ==
  /\ launch.trigger[h].pc = "idle"
  /\ IF runKeyActive(activeExecutionRuns, u)
       THEN /\ launch' = [launch EXCEPT
                 !.told = IF kind = "message" THEN @ \cup {u} ELSE @]
            /\ UNCHANGED activeExecutionRuns
       ELSE /\ activeExecutionRuns' = activeExecutionRuns \cup {u}
            /\ launch' = [launch EXCEPT
                 !.trigger[h] = [pc |-> "announce", user |-> u, kind |-> kind]]
  /\ UNCHANGED <<assignee, executionLocks, run, files, head, otherChanges>>
  /\ LaunchFrame

\* await createWorkerAgentMessage("Starting autonomous execution pass ..."), and
\* then the call of runWorkerAgenticExecution with its .catch and .finally; when
\* the message is not stored the handler rejects before that call.
triggerAnnounce(h, stored) ==
  /\ launch.trigger[h].pc = "announce"
  /\ launch' = [launch EXCEPT
       !.trigger[h] = TriggerIdle,
       !.inFlight[launch.trigger[h].user] = IF stored THEN @ + 1 ELSE @]
  /\ UNCHANGED execVars
  /\ LaunchFrame

\* The run settles: .finally(() => activeExecutionRuns.delete(runKey))
runSettles(u, outcome) ==
  /\ launch.inFlight[u] > 0
  /\ launch' = [launch EXCEPT !.inFlight[u] = @ - 1, !.ended[u] = outcome]
  /\ activeExecutionRuns' = activeExecutionRuns \ {u}
  /\ UNCHANGED <<assignee, executionLocks, run, files, head, otherChanges>>
  /\ LaunchFrame

NextLaunch ==
  \/ \E h \in Triggers, u \in Workers, kind \in TriggerKinds : triggerCheck(h, u, kind)
  \/ \E h \in Triggers, stored \in BOOLEAN : triggerAnnounce(h, stored)
  \/ \E u \in Workers, outcome \in {"resolved", "rejected"} : runSettles(u, outcome)

(***************************************************************************)
(* One assignment and its two kickoffs: POST /tasks/:id/assign              *)
(* (routes/tasks.ts) and the reactor on task.assigned (agents/monitor.ts)  *)
(***************************************************************************)
\* The assignment that the route has stored: task and assignee.
AssignedTask == 1
AssignedUser == 1

\* The callers of workerKickoffAssignedTasks(roomId, assignedUserId, [taskId])
\* for the assignment: the route, right after its events, and masterHandleEvent
\* when the reactor's poll hands it the task.assigned event.
KickoffCallers == {"route", "reactor"}

InitAssign == kickoffsDone = {}

assignmentKickoff(caller) ==
  /\ caller \notin kickoffsDone
  /\ kickoffsDone' = kickoffsDone \cup {caller}
  /\ workerKickoffAssignedTasksReads(AssignedUser, {AssignedTask})
  /\ AssignFrame

\* The assignment with its kickoffs and the pipeline they start.
NextAssign ==
  \/ \E caller \in KickoffCallers : assignmentKickoff(caller)
  \/ \E u \in Workers : kickoffAdvance(u)
  \/ \E u \in Workers : kickoffLaunch(u)
  \/ NextPass

(***************************************************************************)
(* The commits of concurrent passes in one workspace:                      *)
(* commitAndMaybePushRoomRepo (services/roomRepo.ts)                       *)
(***************************************************************************)
\* The pass of worker u works on a task whose only target file is TargetOf(u).
TargetOf(u) == u
TargetFiles == {TargetOf(u) : u \in Workers}

\* A pass outside its apply and commit steps.  changed: the target files the
\* pass has changed; commit: the files of the commit it created; result: the
\* committed flag of commitAndMaybePushRoomRepo, "none" before it returns.
TreePassIdle == [pc |-> "idle", changed |-> {}, commit |-> {}, result |-> "none"]

\* unstaged: the files that differ from the index; staged: the files of the
\* index that differ from HEAD.
InitTree ==
  tree = [unstaged |-> {}, staged |-> {}, pass |-> [u \in Workers |-> TreePassIdle]]

\* The pass applies its edits, finds its target changed and has its
\* verification pass.
treePassApplies(u) ==
  /\ tree.pass[u].pc = "idle"
  /\ tree' = [tree EXCEPT
       !.unstaged = @ \cup {TargetOf(u)},
       !.pass[u] = [TreePassIdle EXCEPT !.pc = "status", !.changed = {TargetOf(u)}]]
  /\ TreeFrame

\* What git status --porcelain prints: the paths that differ, none when the
\* command fails.
porcelainStatus(u, fails) == IF fails THEN {} ELSE tree.unstaged \cup tree.staged

\* git status --porcelain; if (!status) return {committed: false, ...}
commitStatus(u, fails) ==
  /\ tree.pass[u].pc = "status"
  /\ IF porcelainStatus(u, fails) = {}
       THEN tree' = [tree EXCEPT !.pass[u].pc = "blocked", !.pass[u].result = "notCommitted"]
       ELSE tree' = [tree EXCEPT !.pass[u].pc = "add"]
  /\ TreeFrame

\* git add -A
commitAdd(u) ==
  /\ tree.pass[u].pc = "add"
  /\ tree' = [tree EXCEPT !.staged = @ \cup tree.unstaged, !.unstaged = {},
                          !.pass[u].pc = "commit"]
  /\ TreeFrame

\* git commit -m "worker: ...": the index becomes the new HEAD; with nothing
\* staged the command fails and the error reaches the catch of the pass.
commitCreate(u) ==
  /\ tree.pass[u].pc = "commit"
  /\ IF tree.staged = {}
       THEN tree' = [tree EXCEPT !.pass[u].pc = "blocked", !.pass[u].result = "threw"]
       ELSE tree' = [tree EXCEPT !.staged = {}, !.pass[u].pc = "review",
                                 !.pass[u].commit = tree.staged,
                                 !.pass[u].result = "committed"]
  /\ TreeFrame

\* The pass has written review or blocked and goes on to its next task.
treePassEnds(u) ==
  /\ tree.pass[u].pc \in {"review", "blocked"}
  /\ tree' = [tree EXCEPT !.pass[u] = TreePassIdle]
  /\ TreeFrame

NextTree ==
  \/ \E u \in Workers : treePassApplies(u)
  \/ \E u \in Workers, fails \in BOOLEAN : commitStatus(u, fails)
  \/ \E u \in Workers : commitAdd(u)
  \/ \E u \in Workers : commitCreate(u)
  \/ \E u \in Workers : treePassEnds(u)

(***************************************************************************)
(* Contract impact beside the kickoff pipeline                             *)
(***************************************************************************)
\* The publish request that runs beside the pipeline.
PipelinePublishes == {1}

\* Publishing with its impact analysis, and the kickoffs with the runs they
\* launch; no member changes a status and no worker sends a message.
NextContractBlocked ==
  \/ \E h \in PipelinePublishes, breaking \in BOOLEAN, summaryDep \in BOOLEAN :
       publishReadLast(h, breaking, summaryDep)
  \/ \E h \in PipelinePublishes : publishCreate(h)
  \/ \E h \in PipelinePublishes : publishSetCurrent(h)
  \/ \E h \in PipelinePublishes : masterHandleContractPublishedRead(h)
  \/ \E h \in PipelinePublishes : masterHandleContractPublishedBlock(h)
  \/ NextPipeline

(***************************************************************************)
(* Event reactions: what the handling of one stored event stores in turn   *)
(* (monitor.ts processNewEvents / masterHandleEvent, the kickoff and the   *)
(* pass it launches, monitorRoomRepoSignals).  Every stored event carries  *)
(* its distance from the first one.                                        *)
(***************************************************************************)
MaxChain == 14          \* stored events of one chain the model keeps
MaxPassTasks == 1       \* tasks one launched pass works on

RecognizedTypes ==
  {"task.status.updated", "task.assigned", "worker.progress.updated", "worker.blocked",
   "contract.proposed_change", "contract.published", "master.security.alert",
   "member.joined"}

PayloadStatuses == {"in_progress", "review", "blocked", "done"}

Ev(type, status) == [type |-> type, status |-> status]

FirstEvents ==
  {Ev("task.status.updated", s) : s \in PayloadStatuses}
    \cup {Ev(t, "none") : t \in RecognizedTypes \ {"task.status.updated"}}

ChainIdle == [store |-> <<>>, processed |-> {}, passGen |-> 0, passLeft |-> 0,
              passStep |-> "idle"]

InitChain == chain = ChainIdle

\* the alerts of one workspace health check, each behind its own cooldown
repoSignalEvents ==
  {<<>>, <<Ev("master.integration.alert", "none")>>,
   <<Ev("master.security.alert", "none")>>,
   <<Ev("master.integration.alert", "none"), Ev("master.security.alert", "none")>>}

handlerStoresEcho(e) ==
  IF e.type = "master.security.alert"
    THEN {<<>>, <<Ev("master.security.alert", "none")>>}
    ELSE IF e.type \in {"task.status.updated", "worker.progress.updated",
                        "contract.published", "member.joined"}
      THEN repoSignalEvents
      ELSE {<<>>}

\* the events the switch of masterHandleEvent stores for an event that is not an assignment
handlerStores(e) ==
  CASE e.type = "task.status.updated" ->
         {d \o b \o r :
            d \in (IF e.status = "done" THEN {<<>>, <<Ev("task.unblocked", "none")>>}
                                        ELSE {<<>>}),
            b \in (IF e.status = "blocked"
                     THEN {<<>>, <<Ev("master.integration.alert", "none")>>}
                     ELSE {<<>>}),
            r \in repoSignalEvents}
    [] e.type \in {"worker.progress.updated", "contract.published", "member.joined"} ->
         repoSignalEvents
    [] OTHER -> {<<>>}

Stamp(out, g) == [k \in 1..Len(out) |-> [type |-> out[k].type, status |-> out[k].status,
                                          gen |-> g]]

PendingEvents ==
  {i \in 1..Len(chain.store) :
     chain.store[i].type \in RecognizedTypes /\ i \notin chain.processed}

OldestPending == CHOOSE i \in PendingEvents : \A j \in PendingEvents : i <= j

\* one stored event and nothing else: the start of a chain
storeSingleEvent(e) ==
  /\ chain = ChainIdle
  /\ chain' = [chain EXCEPT !.store = <<[type |-> e.type, status |-> e.status, gen |-> 0]>>]
  /\ ChainFrame

\* the poll hands the oldest unhandled event to masterHandleEvent
masterHandleEvent(out) ==
  /\ PendingEvents # {}
  /\ LET i == OldestPending
         e == chain.store[i]
     IN /\ e.type # "task.assigned"
        /\ out \in handlerStores(e)
        /\ Len(chain.store) + Len(out) <= MaxChain
        /\ chain' = [chain EXCEPT !.processed = @ \cup {i},
                                  !.store = @ \o Stamp(out, e.gen + 1)]
  /\ ChainFrame

\* task.assigned: the kickoff announces the task it advanced and launches a pass
masterHandleTaskAssigned(advances, launches) ==
  /\ PendingEvents # {}
  /\ LET i == OldestPending
         e == chain.store[i]
         out == IF advances THEN <<Ev("task.status.updated", "in_progress")>> ELSE <<>>
     IN /\ e.type = "task.assigned"
        /\ launches => chain.passStep = "idle"
        /\ Len(chain.store) + Len(out) <= MaxChain
        /\ chain' = [chain EXCEPT !.processed = @ \cup {i},
                                  !.store = @ \o Stamp(out, e.gen + 1),
                                  !.passGen = IF launches THEN e.gen + 1 ELSE @,
                                  !.passLeft = IF launches THEN MaxPassTasks ELSE @,
                                  !.passStep = IF launches THEN "task" ELSE @]
  /\ ChainFrame

\* the pass turns to its next task, announcing it when it was todo or blocked
passTakesTask(announces) ==
  /\ chain.passStep = "task"
  /\ LET out == IF announces /\ chain.passLeft > 0
                  THEN <<Ev("task.status.updated", "in_progress")>> ELSE <<>>
     IN /\ Len(chain.store) + Len(out) <= MaxChain
        /\ chain' = [chain EXCEPT !.store = @ \o Stamp(out, chain.passGen),
                                  !.passStep = IF chain.passLeft > 0 THEN "work" ELSE "idle"]
  /\ ChainFrame

PassOutcomes ==
  {<<Ev("task.status.updated", "blocked")>>,
   <<Ev("task.status.updated", "review"), Ev("worker.progress.updated", "none")>>,
   <<Ev("task.status.updated", "review"), Ev("master.integration.alert", "none"),
     Ev("worker.progress.updated", "none")>>}

\* the pass leaves its task blocked or in review
passSettlesTask(out) ==
  /\ chain.passStep = "work"
  /\ out \in PassOutcomes
  /\ Len(chain.store) + Len(out) <= MaxChain
  /\ chain' = [chain EXCEPT !.store = @ \o Stamp(out, chain.passGen),
                            !.passLeft = @ - 1,
                            !.passStep = "task"]
  /\ ChainFrame

ChainSteps ==
  \/ \E out \in UNION {handlerStores(e) : e \in FirstEvents \cup
                         {Ev("master.integration.alert", "none")}} : masterHandleEvent(out)
  \/ \E a, l \in BOOLEAN : masterHandleTaskAssigned(a, l)
  \/ \E a \in BOOLEAN : passTakesTask(a)
  \/ \E out \in PassOutcomes : passSettlesTask(out)

NextChain ==
  \/ \E e \in FirstEvents : storeSingleEvent(e)
  \/ ChainSteps

\* C40: starting from one stored event and nothing else arriving, every event of the
\* chain lies at most two reactions away from the first one, and the reactor comes to
\* rest for good: no pass in flight and no recognized event left unhandled.
ChainAtRest == PendingEvents = {} /\ chain.passStep = "idle"

EventReactionsAreFinite ==
  /\ [](\A i \in 1..Len(chain.store) : chain.store[i].gen <= 2)
  /\ <>[]ChainAtRest

EventReactionsWitness ==
  /\ ChainAtRest
  /\ \E i \in chain.processed : chain.store[i].gen = 2
  /\ \E i \in chain.processed : chain.store[i].type = "task.assigned"

(***************************************************************************)
(* Specifications                                                          *)
(***************************************************************************)
InitServer ==
  /\ InitLock /\ InitSignal /\ InitEvents /\ InitTasks /\ InitMonitor /\ InitContracts
  /\ InitExec /\ InitDetect /\ InitTimers /\ InitRepo /\ InitVerify
  /\ InitSweepAlerts /\ InitWorkspace /\ InitFlag /\ InitApply /\ InitLaunch /\ InitAssign /\ InitTree /\ InitChain

Init == InitServer /\ InitGraph

\* The server starts on a room whose contract has any of the tasks linked to it.
InitAlert ==
  /\ InitServer
  /\ contracts = {1}
  /\ taskContractDeps \in SUBSET (Tasks \X {1})
  /\ validate = ValidateIdle

\* The server starts on a room whose contract has every task linked to it.
InitContractLinked ==
  /\ InitServer
  /\ contracts = {1}
  /\ taskContractDeps = Tasks \X {1}
  /\ validate = ValidateIdle

Spec == Init /\ [][Next]_vars

\* The poll and sweep timers keep firing and every awaited query and update of a
\* running handler completes; members' requests are under no obligation.
checkDependencyResolutionSteps(p) ==
  \/ checkDependencyResolutionQuery(p)
  \/ checkDependencyResolutionNext(p)
  \/ checkDependencyResolutionWrite(p)
ReactorSteps ==
  reactorHandleDone \/ reactorHandleWorkerBlocked \/ checkDependencyResolutionSteps("reactor")
SweepSteps ==
  \/ periodicSweepStart
  \/ periodicSweepNext
  \/ periodicSweepEnd
  \/ checkDependencyResolutionSteps("sweep")
SpecImpact == Init /\ [][NextImpact]_vars
SpecExec == Init /\ [][NextExec]_vars
FairSpec == Spec /\ WF_vars(ReactorSteps) /\ WF_vars(SweepSteps)

\* The poll timer keeps firing and the awaited calls of a poll settle, by
\* returning or by rejecting.
PollSteps(p) ==
  processNewEventsQuery(p) \/ processNewEventsHandle(p) \/ processNewEventsDone(p)
FairTimers == Init /\ [][NextTimers]_vars /\ \A p \in Polls : WF_vars(PollSteps(p))

SpecTrigger == Init /\ [][NextTrigger]_vars
SpecGate == Init /\ [][NextGate]_vars
SpecSweepAlerts == Init /\ [][NextSweepAlerts]_vars
SpecGraph == Init /\ [][NextGraph]_vars
SpecAlert == InitAlert /\ [][NextAlert]_vars
SpecVerify == Init /\ [][NextVerify]_vars
SpecTimers == Init /\ [][NextTimers]_vars
SpecRepo == Init /\ [][NextRepo]_vars
SpecDetect == Init /\ [][NextDetect]_vars
SpecWorkspace == Init /\ [][NextWorkspace]_vars
SpecFlag == Init /\ [][NextFlag]_vars
SpecApply == Init /\ [][NextApply]_vars
SpecLaunch == Init /\ [][NextLaunch]_vars
SpecPipeline == Init /\ [][NextPipeline]_vars
SpecAssign == Init /\ [][NextAssign]_vars
SpecTree == Init /\ [][NextTree]_vars
SpecContractBlocked == InitContractLinked /\ [][NextContractBlocked]_vars
SpecChain == Init /\ [][NextChain]_vars
FairChain == SpecChain /\ WF_vars(ChainSteps)
SpecLock == Init /\ [][NextLock]_vars
SpecSignal == Init /\ [][NextSignal]_vars
SpecEvents == Init /\ [][NextEvents]_vars

(***************************************************************************)
(* Claims                                                                  *)
(***************************************************************************)

\* C1: at most one pass holds the execution lock of a task at any time, and a
\* trigger that finds the lock held passes over the task having changed neither
\* its status, nor its blocked-reason, nor the workspace while the lock was held.
ExecutionLockExclusive ==
  \A t \in Tasks :
    /\ Cardinality({u \in Workers : run[u].task = t}) <= 1
    /\ (\E u \in Workers : run[u].task = t) => t \in executionLocks
SkippedNow(u) == {run[u].tasks[i].task : i \in 1..LockedPrefix(run[u].tasks)}
LockedTaskSkippedUntouched ==
  /\ []ExecutionLockExclusive
  /\ [][\A u \in Workers, t \in Tasks :
          (run[u].pc = "loop" /\ run'[u] # run[u] /\ t \in SkippedNow(u))
            => (/\ t \notin run[u].heldAtBootstrapCommit
                /\ taskStatus'[t] = taskStatus[t]
                /\ blockedReason'[t] = blockedReason[t]
                /\ files' = files /\ head' = head /\ otherChanges' = otherChanges)]_vars

\* C2: in every reachable state, for every task, status = blocked if and only if
\* blockedReason is non-null.
BlockedIffReason ==
  \A t \in Tasks : (taskStatus[t] = "blocked") <=> (blockedReason[t] # NullReason)

ImpactBlocksOnlyOpenDependents ==
  [][\A h \in Publishes, t \in Tasks :
       (/\ pub[h].pc = "block"
        /\ pub'[h] # pub[h]
        /\ (taskStatus'[t] # taskStatus[t] \/ blockedReason'[t] # blockedReason[t]))
         => (/\ t \in ContractTasks
             /\ taskStatus[t] \notin {"done", "blocked"}
             /\ taskStatus'[t] = "blocked"
             /\ blockedReason'[t].text = "contract"
             /\ blockedReason'[t].version = pub[h].nextVersion)]_vars

\* C8: in every reachable state, every task that is blocked with a reason that
\* names a dependency has at least one incoming edge whose from-task is not done.
DependencyBlockHasOpenPrerequisite ==
  \A t \in Tasks :
    (taskStatus[t] = "blocked" /\ includesDependency(blockedReason[t]))
      => \E f \in FromTasks(t) : taskStatus[f] # "done"

\* C9: a task that is blocked with a dependency reason while all of its
\* prerequisites are done is eventually todo with its reason cleared (or has been
\* taken out of that situation by a member), when the reactor and the sweep keep
\* running.
ResolvedButBlocked(t) ==
  /\ taskStatus[t] = "blocked"
  /\ includesDependency(blockedReason[t])
  /\ FromTasks(t) # {}
  /\ allComplete(t)
ResolvedTaskEventuallyTodo ==
  \A t \in Tasks :
    ResolvedButBlocked(t)
      ~> ((taskStatus[t] = "todo" /\ blockedReason[t] = NullReason) \/ ~ResolvedButBlocked(t))

\* C10: a write of checkDependencyResolution changes a task only if that task is
\* blocked, its reason names a dependency and all of its from-tasks are done.
ResolverChangesOnlyResolvedTasks ==
  [][\A p \in {"reactor", "sweep"}, t \in Tasks :
       (/\ res[p].pc = "write"
        /\ res'[p].pc = "loop"
        /\ (taskStatus'[t] # taskStatus[t] \/ blockedReason'[t] # blockedReason[t]))
         => (/\ taskStatus[t] = "blocked"
             /\ includesDependency(blockedReason[t])
             /\ allComplete(t))]_vars

\* C3: for any number of concurrent callers of withRoomLock on one room, at most
\* one protected function is executing for that room at any time.
RoomCriticalSectionsNeverOverlap ==
  \A r \in Rooms : Cardinality({c \in Callers : lockPc[c] = "running" /\ lockRoom[c] = r}) <= 1

\* C4: an event id returned by two or more polls (sequential or overlapping, in any
\* state of the bounded processed-id set) is handled by masterHandleEvent exactly once.
EventHandledExactlyOnce ==
  \A id \in EventIds :
    (returnedBy[id] >= 2 /\ \A p \in Polls : pollPc[p] = "idle") => handled[id] = 1

\* The calls of the log before position i for the same key that returned true.
EarlierEmits(i) ==
  {j \in 1..(i - 1) : signalLog[j].key = signalLog[i].key /\ signalLog[j].result}

\* C5: for a given key and cooldown, shouldEmitSignal returns true on the first
\* call, false on every call made less than the cooldown after the last call that
\* returned true, and true on a call made at least the cooldown after it.
SignalCooldownLaw ==
  \A i \in 1..Len(signalLog) :
    LET e == signalLog[i]
        prior == EarlierEmits(i)
    IN e.result = (prior = {} \/ e.at - signalLog[Max(prior)].at >= CooldownOf(e.key))

\* C5 witness: two calls inside the window gave one alert, and a third call,
\* exactly the cooldown after the first, gave the second alert.
SignalCooldownWitness ==
  \E i, j, k \in 1..Len(signalLog) :
    /\ i < j /\ j < k
    /\ signalLog[i].key = signalLog[j].key /\ signalLog[j].key = signalLog[k].key
    /\ signalLog[i].result /\ ~signalLog[j].result /\ signalLog[k].result
    /\ signalLog[j].at > signalLog[i].at
    /\ signalLog[k].at - signalLog[i].at = CooldownOf(signalLog[i].key)

\* C11: every pass that got past the dependency check and ends without writing
\* review leaves the task blocked with a non-null reason: whichever step takes
\* the pass to its end has the task blocked with a reason afterwards.
PassBody == {"start", "plan", "snapshot", "patchPlan", "applyPatch", "applyEdits",
             "retry", "after", "verify", "commit", "catch"}
AbortedPassLeavesTaskBlocked ==
  [][\A u \in Workers :
       (run[u].pc \in PassBody /\ run'[u].pc = "finally")
         => (/\ taskStatus'[run[u].task] = "blocked"
             /\ blockedReason'[run[u].task] # NullReason)]_vars

\* C12: every change of a task's status made by a step other than a member's
\* status request is one of todo->in_progress, in_progress->review,
\* todo/in_progress/review->blocked, blocked->todo, blocked->in_progress; in
\* particular such a step never changes the status of a task that is done.
AllowedAutonomous ==
  {<<"todo", "in_progress">>, <<"in_progress", "review">>, <<"todo", "blocked">>,
   <<"in_progress", "blocked">>, <<"review", "blocked">>, <<"blocked", "todo">>,
   <<"blocked", "in_progress">>}
MemberStatusRequest ==
  \E t \in Tasks, status \in Statuses, reason \in RequestReasons :
    postTaskStatus(t, status, reason)
AutonomousTransitionsAllowed ==
  [][\A t \in Tasks :
       (taskStatus'[t] # taskStatus[t] /\ ~MemberStatusRequest)
         => <<taskStatus[t], taskStatus'[t]>> \in AllowedAutonomous]_vars

\* C13: whenever no publish is between reading the last version number and
\* setting the current version, the version numbers stored for the contract are
\* exactly 1..n, each once, and the current version is the one numbered n.
VersionsGaplessAndCurrentIsLast ==
  (\A h \in Publishes : pub[h].pc \notin {"create", "current"})
    => (/\ \A i \in 1..Len(contractVersions) : contractVersions[i] = i
        /\ currentVersion = Len(contractVersions))

\* C14: the execution lock of a task is held exactly while a pass on that task
\* is between acquiring it and its finally block: once the pass has ended, by
\* whichever path, the lock is free, and a later trigger can take it again.
InPass(u) == run[u].pc \in PassBody \cup {"review", "finally"}
LockHeldOnlyDuringPass ==
  executionLocks = {run[u].task : u \in {w \in Workers : InPass(w)}}
LockReacquiredWitness ==
  \E u \in Workers :
    /\ run[u].pc = "start"
    /\ run[u].task \in executionLocks
    /\ taskStatus[run[u].task] = "blocked"
    /\ blockedReason[run[u].task] = PipelineReason

\* C15: for a contract of type openapi, detectBreakingChange(old, new) is true
\* when some path (a "/" followed by path characters) that occurs in the old
\* content occurs nowhere in the new content, and false whenever the old
\* content occurs in the new content.
IsSubstring(p, s) == \E i \in 0..(Len(s) - Len(p)) : SubSeq(s, i + 1, i + Len(p)) = p
IsPath(p) == Len(p) >= 2 /\ p[1] = "/" /\ \A i \in 1..Len(p) : p[i] \in PathChars
PathMissing(old, new) ==
  \E i \in 1..Len(old), j \in 1..Len(old) :
    /\ IsPath(SubSeq(old, i, j))
    /\ ~IsSubstring(SubSeq(old, i, j), new)
BreakingHeuristicAsStated ==
  detect.pc = "returned"
    => (/\ PathMissing(detect.old, detect.new) => detect.breaking
        /\ IsSubstring(detect.old, detect.new) => ~detect.breaking)

\* C15, amended: true when a path of the old content occurs nowhere in the new
\* content, and false whenever the old content occurs in the new content with
\* no path character right before or right after it.
OccursDelimited(old, new) ==
  \E i \in 0..(Len(new) - Len(old)) :
    /\ SubSeq(new, i + 1, i + Len(old)) = old
    /\ i = 0 \/ new[i] \notin PathChars
    /\ i + Len(old) = Len(new) \/ new[i + Len(old) + 1] \notin PathChars
BreakingHeuristicDelimited ==
  detect.pc = "returned"
    => (/\ PathMissing(detect.old, detect.new) => detect.breaking
        /\ OccursDelimited(detect.old, detect.new) => ~detect.breaking)
BreakingHeuristicWitness ==
  /\ detect.pc = "returned"
  /\ OccursDelimited(detect.old, detect.new)
  /\ detect.new # detect.old
  /\ matchPaths(detect.old, 1) # <<>>
  /\ matchPaths(detect.new, 1) # matchPaths(detect.old, 1)
  /\ ~detect.breaking

\* C16: a trigger that finds a pass for its task in flight is dropped with a
\* notification and is not queued: the step in which a run passes over a task
\* whose lock is held leaves the run's worker told that a pass is already
\* running, and the task is no longer among the tasks the run will visit.
DroppedTriggerNotified ==
  [][\A u \in Workers :
       (run[u].pc = "loop" /\ run'[u] # run[u] /\ SkippedNow(u) # {})
         => (/\ u \in toldAlreadyRunning'
             /\ \A i \in 1..Len(run'[u].tasks) : run'[u].tasks[i].task \notin SkippedNow(u))]_vars

\* C17: an error in the sweep of one room or in the handling of one event does
\* not keep the rest of that cycle from being done: when a sweep callback ends,
\* periodicSweep has been called for every room, and when a poll ends, every
\* event its query returned has been handed to masterHandleEvent.
CycleSurvivesHandlerError ==
  [][/\ (roomSweep.pc = "looping" /\ roomSweep'.pc = "idle") => roomSweep'.swept = Rooms
     /\ \A p \in Polls :
          (pollPc[p] = "looping" /\ pollPc'[p] = "idle")
            => \A i \in 1..Len(pollList[p]) : handled[pollList[p][i]] >= 1]_vars

\* C18: when a sweep of the room ends, every task that was blocked with a reason
\* attributed to a dependency, with all its prerequisites done, when the sweep
\* read the blocked tasks, is todo.
SweepUnblocksResolvedTasks ==
  [][(sweepPc = "running" /\ sweepPc' = "idle")
       => \A t \in sweepResolved : taskStatus'[t] = "todo"]_vars

\* C19: while a commit is under way on a room, no other call is writing to,
\* syncing or committing that room's working tree, and no bootstrap of that room
\* is running under the room's lock.
CommitNeverInterleaves ==
  \A i \in RepoCalls :
    repoOp[i].kind = "commit"
      => (/\ \A j \in RepoCalls \ {i} :
               repoOp[j].kind = "none" \/ repoOp[j].room # repoOp[i].room
          /\ \A c \in Callers : ~(lockPc[c] = "running" /\ lockRoom[c] = repoOp[i].room))

\* C20: a status write of the impact analyzer or of the dependency resolver is
\* applied only if the task still has the status the handler read: no write
\* follows a decision made on a status that has changed since.
NoWriteOnStaleRead ==
  [][/\ \A h \in Publishes :
          (pub[h].pc = "block" /\ pub'[h].pc = "block" /\ pub'[h].idx # pub[h].idx)
            => taskStatus[pub[h].impacted[pub'[h].idx].task]
                 = pub[h].impacted[pub'[h].idx].status
     /\ \A p \in {"reactor", "sweep"} :
          (res[p].pc = "write" /\ res'[p].pc = "loop" /\ shouldUnblock(res[p]))
            => taskStatus[res[p].deps[res[p].idx].task] = res[p].deps[res[p].idx].status]_vars

\* C21: a step of the kickoff or of a pass moves a task to in_progress only
\* while every prerequisite of the task is done, and a step of a pass whose task
\* has an unfinished prerequisite changes neither the task nor the working tree.
StartGatedOnPrerequisites ==
  [][\A u \in Workers :
       run'[u] # run[u] =>
         \A t \in Tasks :
           ~allComplete(t) =>
             /\ taskStatus'[t] = "in_progress" => taskStatus[t] = "in_progress"
             /\ run[u].task = t /\ run[u].pc \in PassBody \cup {"finally"} =>
                  /\ taskStatus'[t] = taskStatus[t]
                  /\ blockedReason'[t] = blockedReason[t]
                  /\ files' = files /\ otherChanges' = otherChanges /\ head' = head]_vars

\* C22: when a pass ends after a commit whose push to the configured remote
\* failed, the pass has left the task in review and has emitted exactly one
\* medium alert for it; when the push succeeded or there is no remote, the pass
\* has emitted no such alert.
PushFailureAlertsOnly ==
  \A u \in Workers :
    (run[u].pc = "finally" /\ run[u].committed) =>
      IF run[u].pushError
        THEN run[u].lastWrite = "review" /\ run[u].pushAlerts = 1
        ELSE run[u].pushAlerts = 0

\* C23: a step of a pass changes a task to review only in a pass that has
\* created a commit, and the step of a pass that finds nothing to commit ends
\* the pass with the task blocked and without a commit.
ReviewOnlyAfterCommit ==
  [][\A u \in Workers :
       run'[u] # run[u] =>
         /\ \A t \in Tasks :
              (taskStatus'[t] = "review" /\ taskStatus[t] # "review")
                => (run[u].task = t /\ run[u].committed)
         /\ (run[u].pc = "commit" /\ ~dirty)
              => /\ run'[u].pc = "finally" /\ ~run'[u].committed
                 /\ taskStatus'[run[u].task] = "blocked"
                 /\ head' = head]_vars

NothingToCommitWitness ==
  \E u \in Workers :
    /\ run[u].pc = "finally" /\ run[u].nothingToCommit
    /\ taskStatus[run[u].task] = "blocked"

\* C24: when a pass that has created a commit ends, the task is in review,
\* whichever of the steps after the commit has failed.
CommittedPassEndsInReview ==
  \A u \in Workers :
    (run[u].pc = "finally" /\ run[u].committed) => taskStatus[run[u].task] = "review"

\* C25: the verification commands are taken in order, one log entry each; a
\* command that may not run is logged as skipped and fails nothing; the first
\* command that fails is the last one taken and the pass goes on blocked, without
\* the commit; a loop that ends with no failure, skipped commands included,
\* goes on to the commit.
LogFailed(v) == \E k \in 1..Len(v.logs) : v.logs[k].result = "FAILED"
VerificationStopsAtFirstFailure ==
  LET v == verification
  IN /\ Len(v.logs) <= Len(v.cmds)
     /\ \A k \in 1..Len(v.logs) :
          /\ v.logs[k].cmd = k
          /\ v.logs[k].result = "SKIPPED" <=> ~(v.cmds[k].safe /\ v.cmds[k].declared)
          /\ v.logs[k].result = "FAILED" =>
               /\ v.cmds[k].exits = "error"
               /\ k = Len(v.logs)
               /\ v.pc \in {"after", "done"}
          /\ v.logs[k].result = "output" => v.cmds[k].exits = "ok"
     /\ v.pc = "done" =>
          /\ v.next = (IF LogFailed(v) THEN "blocked" ELSE "commit")
          /\ ~LogFailed(v) => Len(v.logs) = Len(v.cmds)

\* A skipped command, then a failing one, then a command that is never taken.
VerificationWitness ==
  /\ verification.pc = "done"
  /\ Len(verification.cmds) = 3
  /\ Len(verification.logs) = 2
  /\ verification.logs[1].result = "SKIPPED"
  /\ verification.logs[2].result = "FAILED"
  /\ verification.next = "blocked"

ValidateStep == validate' # validate
ValidateRemovesOnlyDangling ==
  [][ValidateStep =>
       /\ \A e \in taskContractDeps : e[2] \in contracts => e \in taskContractDeps'
       /\ taskContractDeps' \subseteq taskContractDeps
       /\ (validate.pc = "loop" /\ validate'.pc = "idle")
            => \A e \in taskContractDeps' : e[2] \in contracts']_vars

\* C27: two alerts of the sweep for the same key are at least the key's
\* cooldown apart (the default cooldown for a key given none), however long the
\* condition lasts.
SweepAlertsRespectCooldown ==
  \A i, j \in 1..Len(sweepAlerts.log) :
    (i < j /\ sweepAlerts.log[i].key = sweepAlerts.log[j].key)
      => sweepAlerts.log[j].at - sweepAlerts.log[i].at >= SIGNAL_COOLDOWN

\* C29: the step that records an event leaves at most MaxProcessed ids in the
\* processed set, the recorded id among them; if the set had room the id is
\* just added, and otherwise exactly EvictCount ids are removed, each of them
\* inserted before every id that is kept.
IdSet(seq) == {seq[i] : i \in 1..Len(seq)}
PosIn(seq, x) == CHOOSE i \in 1..Len(seq) : seq[i] = x
ProcessedSetBounded ==
  [][\A id \in EventIds :
       handled'[id] # handled[id] =>
         LET old == IdSet(processedEvents)
             new == IdSet(processedEvents')
             removed == (old \cup {id}) \ new
         IN /\ Cardinality(new) <= MaxProcessed
            /\ Len(processedEvents') = Cardinality(new)
            /\ id \in new
            /\ new \subseteq old \cup {id}
            /\ IF Cardinality(old) + 1 <= MaxProcessed
                 THEN removed = {}
                 ELSE /\ Cardinality(removed) = EvictCount
                      /\ \A r \in removed, k \in new \ {id} :
                           PosIn(processedEvents, r) < PosIn(processedEvents, k)]_vars

\* An eviction has taken place: a recorded id is no longer in the set.
EvictionWitness ==
  /\ Len(processedEvents) = MaxProcessed
  /\ \E id \in EventIds : handled[id] >= 1 /\ ~InSeq(id, processedEvents)

\* C30: every stored event of a recognized type is eventually handled to
\* completion: some call of masterHandleEvent for it returns, whether an earlier
\* call rejected or the event has meanwhile left the query window.
EveryStoredEventCompleted ==
  \A id \in EventIds : (id <= eventsCreated) ~> (id \in completedEvents)

\* C31: the readiness flag that a call of ensureRoomRepoWorkspace returns or
\* stores is true only if the workspace has a git root and a commit: in the step
\* in which the call stores and returns, a true flag comes with both.
ReadyOnlyWithRootAndCommit ==
  [][\A r \in Rooms :
       (workspace[r].pc = "store" /\ workspace'[r].pc = "idle" /\ workspace[r].repoReady)
         => (workspace[r].gitRoot /\ workspace[r].commits >= 1)]_vars

\* C32: the breaking flag stored with a version is the publisher's flag or the
\* heuristic's verdict on the content of the version the request read as the
\* contract's current one: an explicit true is stored as true, the heuristic is
\* consulted only for an explicit false, and a version published when the
\* contract had no current version is breaking only if marked so.
HeuristicVerdict(v) ==
  v.basis # 0 /\ detectBreakingChange(publishFlag.versions[v.basis].content, v.content)
StoredFlagIsExplicitOrHeuristic ==
  \A i \in 1..Len(publishFlag.versions) :
    LET v == publishFlag.versions[i]
    IN /\ v.breaking = (v.explicit \/ HeuristicVerdict(v))
       /\ v.consulted => ~v.explicit
       /\ v.basis = 0 => v.breaking = v.explicit

\* An explicitly breaking version whose content keeps every path of the current
\* one is stored as breaking, beside a version marked non-breaking that the
\* heuristic found breaking.
StoredFlagWitness ==
  \E i, j \in 1..Len(publishFlag.versions) :
    LET v == publishFlag.versions[i]
        w == publishFlag.versions[j]
    IN /\ v.explicit /\ v.basis # 0 /\ ~HeuristicVerdict(v) /\ v.breaking
       /\ ~w.explicit /\ w.consulted /\ w.breaking

\* C33: applyFileEdits writes a file only if the edit's path is in the selected
\* target set, is relative, has no ".." segment, resolves inside the workspace
\* and has an extension of the editable list; an edit that fails a check writes
\* nothing, and a call in which no edit passed has written nothing and throws.
HasEditableExtension(p) == extname(p) \in EDITABLE_FILE_EXTENSIONS
IsEditableName(p) ==
  \/ HasEditableExtension(p)
  \/ extname(p) = "" /\ basename(p) \in ALLOWED_EXTENSIONLESS_FILES
PathChecks(p) ==
  /\ p \in apply.allowedPaths
  /\ ~p.abs
  /\ \A i \in 1..Len(p.segs) : p.segs[i] # ".."
  /\ insideWorkspace(resolve(p))
WritesOnlyAs(Editable(_)) ==
  /\ (apply.pc = "loop" /\ apply'.pc = "loop" /\ apply'.edits = apply.edits + 1)
       => LET p == apply'.edit[1]
          IN /\ apply'.written \ apply.written \subseteq {resolve(p)}
             /\ apply'.written # apply.written => (PathChecks(p) /\ Editable(p))
             /\ ~(PathChecks(p) /\ Editable(p))
                  => (apply'.written = apply.written
                      /\ apply'.appliedPaths = apply.appliedPaths)
  /\ (apply.pc = "loop" /\ apply'.pc # "loop")
       => /\ apply.appliedPaths = {} <=> apply'.pc = "threw"
          /\ apply.appliedPaths = {} => apply.written = {}
WritesOnlyCheckedEditableExtension == [][WritesOnlyAs(HasEditableExtension)]_vars

\* C33, amended: as above, with "has an extension of the editable list or has no
\* extension and a file name of the extensionless allow-list" for the last check.
WritesOnlyCheckedEditableName == [][WritesOnlyAs(IsEditableName)]_vars

\* A call that wrote the Dockerfile of the target set, passed over an edit with
\* a ".." segment that is in the target set too, and returned.
ApplyWitness ==
  /\ apply.pc = "returned"
  /\ apply.edits = 2
  /\ apply.written = {<<"ws", "Dockerfile">>}
  /\ apply.edit[1].segs[1] = ".."
  /\ apply.edit[1] \in apply.allowedPaths

\* C34: no step leaves a user with two runs of runWorkerAgenticExecution in
\* flight, whichever of the two triggers launched them, and the step in which a
\* run settles, resolved or rejected, removes the user's run key.
OneRunPerUserAndKeyRemoved ==
  [][\A u \in Workers :
       /\ launch'.inFlight[u] <= 1
       /\ launch'.inFlight[u] < launch.inFlight[u] => u \notin activeExecutionRuns']_vars

\* A user's run has rejected and its key is gone, after a second trigger for
\* the user found the key and told the user so.
RunKeyWitness ==
  \E u \in Workers :
    /\ launch.ended[u] = "rejected"
    /\ u \in launch.told
    /\ u \notin activeExecutionRuns
    /\ launch.inFlight[u] = 0

\* C35: a task that a kickoff has moved from todo to in_progress is not left
\* in_progress without a pass: the kickoff, and the run it launches, do not
\* return before the run's loop over the tasks while such a task is in_progress
\* and no other run has it in hand or ahead.
InHandOrAhead(t, u) ==
  \E w \in Workers \ {u} :
    /\ run[w].pc \notin {"idle", "advance"}
    /\ \/ run[w].task = t
       \/ t \in run[w].taskIds
       \/ \E i \in 1..Len(run[w].tasks) : run[w].tasks[i].task = t
AdvancedTaskGetsPass ==
  [][\A u \in Workers :
       (run[u].pc \in {"advance", "query", "workspace"} /\ run'[u].pc = "idle")
         => \A t \in run[u].advanced :
              taskStatus'[t] = "in_progress" => InHandOrAhead(t, u)']_vars

\* C36: the two kickoffs of one assignment do not run two passes on the task:
\* no run takes the task's lock while another holds it, and none takes it after
\* a pass has ended for the task, in review or blocked by the pipeline.
PassEnded(t) ==
  \/ taskStatus[t] = "review"
  \/ taskStatus[t] = "blocked" /\ blockedReason[t] = PipelineReason
OneAssignmentOnePass ==
  [][(AssignedTask \in executionLocks' /\ AssignedTask \notin executionLocks)
       => ~PassEnded(AssignedTask)]_vars

\* C37: with passes for different tasks running in one workspace, the commit a
\* pass creates holds only the target files that pass changed, and a pass that
\* changed its target is not ended as having nothing to commit while the tree
\* has nothing to commit, its changes being in the commit of another pass.
CommitHoldsOwnChangesOnly ==
  [][\A u \in Workers :
       /\ (tree.pass[u].pc = "commit" /\ tree'.pass[u].pc = "review")
            => tree'.pass[u].commit \subseteq tree.pass[u].changed
       /\ (tree.pass[u].pc = "status" /\ tree'.pass[u].pc = "blocked"
             /\ tree.pass[u].changed # {})
            => tree.staged \cup tree.unstaged # {}]_vars

\* C38: the reactor handles one event at a time, in the order of creation: no
\* poll starts the handler of an event while the handler that another poll
\* started for an earlier event has not returned.
HandlersOneAtATime ==
  [][\A p \in Polls :
       (InFlight(p)' # {} /\ InFlight(p)' # InFlight(p))
         => \A q \in Polls \ {p} :
              \A later \in InFlight(p)', earlier \in InFlight(q)' : ~(earlier < later)]_vars

\* C39: with no member changing a status and no worker asking for a retry, a
\* task that the impact analysis has blocked stays blocked with its reason: no
\* step moves it out of blocked or replaces its contract reason by another kind
\* of reason.
BlockedByContract(t) == taskStatus[t] = "blocked" /\ blockedReason[t].text = "contract"
ContractBlockStays ==
  [][\A t \in Tasks : BlockedByContract(t) => BlockedByContract(t)']_vars
====
